---- MODULE Spec2Model ----
(***************************************************************************)
(* Retrieval-and-ranking pipeline of the contextual code search engine.   *)
(*                                                                         *)
(* Real numbers of the program are modelled in exact fixed point:          *)
(*   sub-scores and the similarity score   : 1.0 = SubScale                *)
(*   ranking weights                       : 1.0 = WScale                  *)
(*   boost factors                         : 1.0 = BScale                  *)
(*   final relevance score                 : 1.0 = FinalScale              *)
(*   lexical score of SemanticSearch       : 1.0 = LexScale                *)
(* The input sets are chosen so that every division below is exact.        *)
(* Strings are sequences of one-character strings.                         *)
(***************************************************************************)
EXTENDS Integers, Sequences, FiniteSets, TLC

VARIABLES
    results,      \* RankingEngine: the candidate list being processed
    query,        \* RankingEngine: the SearchQuery
    weights,      \* RankingEngine.weights (settings.SEARCH_WEIGHTS)
    prev,         \* the candidate list handed to the last ranking operation
    lastOp,       \* the last ranking operation performed
    fs,           \* the files of the indexed directory: path -> content
    indexed_snippets,  \* SemanticSearch.indexed_snippets
    parsed,       \* the list returned by the last CodeParser.parse_file call
    parsedPath,   \* the path that call was given
    runs,         \* number of _index_directory runs made on this instance
    req,          \* the last request served by SemanticSearch / search_code
    out,          \* what that request returned
    pc,           \* per worker process: its position in search_code
    corpus,       \* per worker process: its SemanticSearch.indexed_snippets
    todo,         \* per worker process: files rglob listed, not yet parsed
    answered,     \* per worker process: the corpus its last search ran over
    store         \* VectorStore: the points of each Qdrant collection

rankVars == <<results, query, weights, prev, lastOp>>
indexVars == <<fs, indexed_snippets, parsed, parsedPath, runs>>
searchVars == <<req, out>>
workerVars == <<pc, corpus, todo, answered>>
storeVars == <<store>>

vars == <<rankVars, indexVars, searchVars, workerVars, storeVars>>

\* no request has been served
SearchIdle ==
    /\ req = [op |-> "none", served |-> TRUE]
    /\ out = <<>>

\* no worker process is running
WorkersIdle ==
    /\ pc = <<>>
    /\ corpus = <<>>
    /\ todo = <<>>
    /\ answered = <<>>

\* no vector store is connected
StoreIdle == store = <<>>

-----------------------------------------------------------------------------
(* Generic helpers                                                         *)

Min(a, b) == IF a <= b THEN a ELSE b
Max(a, b) == IF a >= b THEN a ELSE b

Range(s) == {s[i] : i \in 1..Len(s)}

\* str.lower() on the characters the model uses
LowerChar(c) ==
    CASE c = "S" -> "s"
      [] c = "O" -> "o"
      [] c = "R" -> "r"
      [] c = "T" -> "t"
      [] OTHER -> c

Lower(s) == [i \in 1..Len(s) |-> LowerChar(s[i])]

\* Python's `needle in haystack` on strings
IsSubstr(needle, hay) ==
    \E k \in 0..(Len(hay) - Len(needle)) :
        \A i \in 1..Len(needle) : hay[k + i] = needle[i]

\* str.split('\n')
RECURSIVE SplitLines(_)
SplitLines(s) ==
    IF \A i \in 1..Len(s) : s[i] # "\n"
    THEN <<s>>
    ELSE LET k == CHOOSE i \in 1..Len(s) :
                      s[i] = "\n" /\ \A j \in 1..(i - 1) : s[j] # "\n"
         IN  <<SubSeq(s, 1, k - 1)>> \o SplitLines(SubSeq(s, k + 1, Len(s)))

IsSpace(c) == c \in {" ", "\t", "\n"}

\* str.strip()
RECURSIVE Strip(_)
Strip(s) ==
    IF s = <<>> THEN s
    ELSE IF IsSpace(s[1]) THEN Strip(Tail(s))
    ELSE IF IsSpace(s[Len(s)]) THEN Strip(SubSeq(s, 1, Len(s) - 1))
    ELSE s

\* str.startswith(prefix)
StartsWith(s, prefix) ==
    /\ Len(prefix) <= Len(s)
    /\ SubSeq(s, 1, Len(prefix)) = prefix

\* '\n'.join(lines)
RECURSIVE JoinLines(_)
JoinLines(ls) ==
    IF ls = <<>> THEN <<>>
    ELSE IF Len(ls) = 1 THEN ls[1]
    ELSE ls[1] \o <<"\n">> \o JoinLines(Tail(ls))

\* sum of f over a finite set of integers
RECURSIVE SumOver(_, _)
SumOver(S, f) ==
    IF S = {} THEN 0
    ELSE LET x == CHOOSE y \in S : TRUE
         IN  f[x] + SumOver(S \ {x}, f)

-----------------------------------------------------------------------------
(* Fixed-point scales                                                      *)

SubScale == 6 * 100
WScale == 2 * 10
BScale == 2 * 5
FinalScale == SubScale * WScale * BScale * BScale * BScale * BScale

-----------------------------------------------------------------------------
(* settings.SEARCH_WEIGHTS, in units of 1/WScale                           *)

W_semantic_similarity == 8
W_keyword_match == 6
W_code_quality == 2
W_popularity == 2
W_recency == 1
W_documentation == 1

SEARCH_WEIGHTS ==
    [k \in {"semantic_similarity", "keyword_match", "code_quality",
            "popularity", "recency", "documentation"} |->
        CASE k = "semantic_similarity" -> W_semantic_similarity
          [] k = "keyword_match" -> W_keyword_match
          [] k = "code_quality" -> W_code_quality
          [] k = "popularity" -> W_popularity
          [] k = "recency" -> W_recency
          [] OTHER -> W_documentation]

\* the clock of datetime.utcnow(), as a day number
NowDay == 10 * 100

-----------------------------------------------------------------------------
(* RankingEngine: the five computed sub-scores                             *)

\* set(result.snippet.keywords) & set(query.query_keywords)
KeywordOverlap(r, q) ==
    Cardinality(r.snippet.keywords \cap Range(q.query_keywords))

\* sum(1 for keyword in query_keywords if keyword.lower() in content_lower)
ContentMatches(r, q) ==
    Cardinality({k \in Range(q.query_keywords) :
                    IsSubstr(Lower(k), Lower(r.snippet.content))})

_calculate_keyword_score(r, q) ==
    IF q.query_keywords = <<>> THEN 0
    ELSE LET total == Cardinality(Range(q.query_keywords))
             both  == 2 * KeywordOverlap(r, q) + ContentMatches(r, q)
         IN  Min((SubScale * both) \div (3 * total), SubScale)

ComplexityPenalty(r) ==
    IF r.snippet.complexity_score > 15
    THEN Min(((r.snippet.complexity_score - 15) * SubScale) \div 20,
             (3 * SubScale) \div 10)
    ELSE 0

_calculate_quality_score(r) ==
    LET readability_bonus == (r.snippet.readability_score * 2) \div 10
        doc_bonus == IF r.snippet.docstring # <<>> THEN SubScale \div 10 ELSE 0
        quality_score == r.snippet.quality_score - ComplexityPenalty(r)
                           + readability_bonus + doc_bonus
    IN  Max(Min(quality_score, SubScale), 0)

\* hasattr(result.snippet, 'repository'): CodeSnippet declares no such field
SnippetHasRepository(r) == FALSE

\* min(math.log10(repo.stars + 1) / 5, 1.0) for stars = 10^k - 1
RepoPopularity(r) ==
    IF SnippetHasRepository(r) /\ r.repository.stars_log10 > 0
    THEN Min((r.repository.stars_log10 * SubScale) \div 5, SubScale)
    ELSE 0

UsageScore(r) == Min((r.snippet.usage_count * SubScale) \div 100, SubScale)

ViewScore(r) == Min((r.view_count * SubScale) \div 50, SubScale)

_calculate_popularity_score(r) ==
    (5 * RepoPopularity(r) + 3 * UsageScore(r) + 2 * ViewScore(r)) \div 10

\* datetime.utcnow() - created_at raises TypeError for an offset-aware created_at
_calculate_recency_score(r) ==
    LET created_at == r.snippet.created_at
        days_old == NowDay - created_at.day
    IN  IF ~created_at.has THEN SubScale \div 2
        ELSE IF created_at.aware THEN SubScale \div 2
        ELSE IF days_old <= 30 THEN SubScale
        ELSE IF days_old <= 90 THEN (8 * SubScale) \div 10
        ELSE IF days_old <= 365 THEN (6 * SubScale) \div 10
        ELSE IF days_old <= 730 THEN (4 * SubScale) \div 10
        ELSE (2 * SubScale) \div 10

IsCommentLine(line) ==
    LET st == Strip(line)
    IN  \/ StartsWith(st, <<"#">>)
        \/ StartsWith(st, <<"/", "/">>)
        \/ StartsWith(st, <<"/", "*">>)
        \/ StartsWith(st, <<"*", "/">>)

CommentLines(content) ==
    LET ls == SplitLines(content)
    IN  Cardinality({i \in 1..Len(ls) : IsCommentLine(ls[i])})

_calculate_documentation_score(r) ==
    LET s == r.snippet
        total_lines == Len(SplitLines(s.content))
        doc == (IF s.docstring # <<>> THEN (4 * SubScale) \div 10 ELSE 0)
             + (IF Len(s.name) > 2 THEN (2 * SubScale) \div 10 ELSE 0)
             + (IF s.parameters # <<>> THEN (2 * SubScale) \div 10 ELSE 0)
             + (IF s.return_type # <<>> THEN SubScale \div 10 ELSE 0)
             + Min((CommentLines(s.content) * 3 * SubScale) \div (10 * total_lines),
                   SubScale \div 10)
    IN  Min(doc, SubScale)

-----------------------------------------------------------------------------
(* RankingEngine._calculate_relevance_score                                *)

\* self.weights[...] raises KeyError when the configured dict lacks a key
WeightsComplete(w) ==
    {"semantic_similarity", "keyword_match", "code_quality",
     "popularity", "recency", "documentation"} \subseteq DOMAIN w

WeightedSum(r, q, w) ==
      r.similarity_score * w["semantic_similarity"]
    + _calculate_keyword_score(r, q) * w["keyword_match"]
    + _calculate_quality_score(r) * w["code_quality"]
    + _calculate_popularity_score(r) * w["popularity"]
    + _calculate_recency_score(r) * w["recency"]
    + _calculate_documentation_score(r) * w["documentation"]

Boosted(r, base) ==
    base * r.quality_boost * r.popularity_boost
         * r.recency_boost * r.documentation_boost

\* the except branch returns result.similarity_score
_calculate_relevance_score(r, q, w) ==
    IF WeightsComplete(w)
    THEN Min(Boosted(r, WeightedSum(r, q, w)), FinalScale)
    ELSE r.similarity_score * (FinalScale \div SubScale)

-----------------------------------------------------------------------------
(* RankingEngine.rank_results                                              *)

Scored(rs, q, w) ==
    [i \in 1..Len(rs) |->
        [rs[i] EXCEPT !.relevance_score = _calculate_relevance_score(rs[i], q, w)]]

\* a sort that puts an element before the earlier elements of equal key
RECURSIVE InsertDescUnstable(_, _)
InsertDescUnstable(x, sorted) ==
    IF sorted = <<>> THEN <<x>>
    ELSE IF sorted[1].relevance_score > x.relevance_score
         THEN <<sorted[1]>> \o InsertDescUnstable(x, Tail(sorted))
         ELSE <<x>> \o sorted

\* position of x in an already sorted list: behind every element whose key is
\* not smaller (list.sort is stable, also with reverse=True)
RECURSIVE InsertDesc(_, _)
InsertDesc(x, sorted) ==
    IF sorted = <<>> THEN <<x>>
    ELSE IF sorted[1].relevance_score >= x.relevance_score
         THEN <<sorted[1]>> \o InsertDesc(x, Tail(sorted))
         ELSE <<x>> \o sorted

RECURSIVE SortDesc(_)
SortDesc(rs) ==
    IF rs = <<>> THEN <<>>
    ELSE InsertDesc(rs[Len(rs)], SortDesc(SubSeq(rs, 1, Len(rs) - 1)))

rank_results(rs, q, w) == SortDesc(Scored(rs, q, w))

-----------------------------------------------------------------------------
(* RankingEngine.filter_results                                            *)

InList(x, list) == x \in Range(list)

\* the tests made before the date range is looked at
PassesBasicFilters(r, q) ==
    /\ ~(r.similarity_score < q.similarity_threshold)
    /\ ~(q.languages # <<>> /\ ~InList(r.snippet.language, q.languages))
    /\ ~(q.repositories # <<>> /\ ~InList(r.snippet.repository_id, q.repositories))
    /\ ~(q.complexity_levels # <<>>
           /\ ~InList(r.snippet.complexity_level, q.complexity_levels))

\* comparing an offset-naive with an offset-aware datetime raises TypeError
DateFilterRaises(r, q) ==
    LET c == r.snippet.created_at
        dr == q.date_range
    IN  /\ dr.has
        /\ c.has
        /\ \/ dr.start.has /\ dr.start.aware # c.aware
           \/ /\ ~(dr.start.has /\ c.day < dr.start.day)
              /\ dr.end.has /\ dr.end.aware # c.aware

DateFilterDrops(r, q) ==
    LET c == r.snippet.created_at
        dr == q.date_range
    IN  /\ dr.has
        /\ c.has
        /\ \/ dr.start.has /\ c.day < dr.start.day
           \/ dr.end.has /\ c.day > dr.end.day

FilterRaises(rs, q) ==
    \E i \in 1..Len(rs) : PassesBasicFilters(rs[i], q) /\ DateFilterRaises(rs[i], q)

Keeps(r, q) == PassesBasicFilters(r, q) /\ ~DateFilterDrops(r, q)

\* the except branch returns the unfiltered input list
filter_results(rs, q) ==
    IF FilterRaises(rs, q) THEN rs
    ELSE SelectSeq(rs, LAMBDA r : Keeps(r, q))

-----------------------------------------------------------------------------
(* Inputs of the ranking engine                                            *)

MaxResults == 2

s_sort == <<"s", "o", "r", "t">>
s_x == <<"x">>
c_plain == <<"x", "=", "1">>
c_sort == <<"#", " ", "c", "\n", "S", "o", "r", "t">>

NoDate == [has |-> FALSE, day |-> 0, aware |-> FALSE]
Naive(d) == [has |-> TRUE, day |-> d, aware |-> FALSE]
Aware(d) == [has |-> TRUE, day |-> d, aware |-> TRUE]

BaseSnippet ==
    [language |-> "python", repository_id |-> "r1", content |-> c_plain,
     keywords |-> {}, quality_score |-> SubScale \div 2, complexity_score |-> 3,
     readability_score |-> 0, docstring |-> <<>>, name |-> <<"f">>,
     parameters |-> <<>>, return_type |-> <<>>, usage_count |-> 0,
     created_at |-> NoDate, complexity_level |-> "low", code_type |-> "function"]

BaseResult ==
    [id |-> 0, snippet |-> BaseSnippet, repository |-> [stars_log10 |-> 2],
     similarity_score |-> SubScale \div 2, view_count |-> 0,
     quality_boost |-> BScale, popularity_boost |-> BScale,
     recency_boost |-> BScale, documentation_boost |-> BScale,
     relevance_score |-> 0]

WithSnippet(s) == [BaseResult EXCEPT !.snippet = s]

\* one candidate per row; a row differs from BaseResult in the fields named
CandidateRows ==
    << BaseResult,
       [BaseResult EXCEPT !.similarity_score = 0 - (SubScale \div 2)],
       [BaseResult EXCEPT !.similarity_score = SubScale],
       [BaseResult EXCEPT !.similarity_score = (3 * SubScale) \div 2],
       WithSnippet([BaseSnippet EXCEPT !.language = "javascript"]),
       [WithSnippet([BaseSnippet EXCEPT !.language = "javascript",
                                        !.repository_id = "r2",
                                        !.complexity_level = "high",
                                        !.created_at = Naive(NowDay - 800)])
           EXCEPT !.similarity_score = SubScale],
       WithSnippet([BaseSnippet EXCEPT !.usage_count = 0 - 100]),
       WithSnippet([BaseSnippet EXCEPT !.usage_count = 50]),
       [WithSnippet([BaseSnippet EXCEPT !.usage_count = 200])
           EXCEPT !.view_count = 25],
       [BaseResult EXCEPT !.view_count = 100],
       WithSnippet([BaseSnippet EXCEPT !.quality_score = 7 * SubScale,
                                        !.complexity_score = 20,
                                        !.readability_score = SubScale]),
       WithSnippet([BaseSnippet EXCEPT !.quality_score = 0,
                                        !.complexity_score = 40,
                                        !.docstring = <<"d">>]),
       WithSnippet([BaseSnippet EXCEPT !.keywords = {s_sort},
                                        !.content = c_sort,
                                        !.name = s_sort,
                                        !.parameters = <<"a">>,
                                        !.return_type = <<"i">>,
                                        !.docstring = <<"d">>,
                                        !.created_at = Naive(NowDay - 10)]),
       WithSnippet([BaseSnippet EXCEPT !.created_at = Naive(NowDay - 60),
                                        !.content = c_sort]),
       WithSnippet([BaseSnippet EXCEPT !.created_at = Naive(NowDay - 200)]),
       WithSnippet([BaseSnippet EXCEPT !.created_at = Naive(NowDay - 500)]),
       WithSnippet([BaseSnippet EXCEPT !.created_at = Aware(NowDay - 10)]),
       [BaseResult EXCEPT !.quality_boost = 2 * BScale,
                          !.popularity_boost = (3 * BScale) \div 2],
       [BaseResult EXCEPT !.quality_boost = BScale \div 2,
                          !.recency_boost = (13 * BScale) \div 10,
                          !.documentation_boost = (12 * BScale) \div 10],
       [BaseResult EXCEPT !.popularity_boost = 2 * BScale] >>

Candidates ==
    {[CandidateRows[i] EXCEPT !.id = i] : i \in 1..Len(CandidateRows)}

RECURSIVE SeqsUpTo(_, _)
SeqsUpTo(S, n) ==
    IF n = 0 THEN {<<>>}
    ELSE LET shorter == SeqsUpTo(S, n - 1)
         IN  shorter \cup {Append(t, x) : t \in shorter, x \in S}

NoRange == [has |-> FALSE, start |-> NoDate, end |-> NoDate]

BaseQuery ==
    [query_keywords |-> <<>>, languages |-> <<>>, repositories |-> <<>>,
     complexity_levels |-> <<>>, similarity_threshold |-> 0,
     date_range |-> NoRange]

Queries ==
    { BaseQuery,
      [BaseQuery EXCEPT !.languages = <<"python">>,
                        !.query_keywords = <<s_sort>>,
                        !.similarity_threshold = (3 * SubScale) \div 10],
      [BaseQuery EXCEPT !.languages = <<"python">>,
                        !.date_range = [has |-> TRUE,
                                        start |-> Aware(NowDay - 100),
                                        end |-> NoDate]],
      [BaseQuery EXCEPT !.repositories = <<"r1">>,
                        !.complexity_levels = <<"low", "medium">>,
                        !.query_keywords = <<s_sort, s_x, s_sort>>,
                        !.date_range = [has |-> TRUE,
                                        start |-> Naive(NowDay - 300),
                                        end |-> Naive(NowDay - 30)]] }

\* settings.SEARCH_WEIGHTS can be overridden from the environment
WeightConfigs ==
    { SEARCH_WEIGHTS,
      [k \in {"semantic_similarity", "keyword_match"} |-> SEARCH_WEIGHTS[k]] }

-----------------------------------------------------------------------------
(* The ranking engine as a state machine                                   *)

RankInit ==
    /\ results \in SeqsUpTo(Candidates, MaxResults)
    /\ query \in Queries
    /\ weights \in WeightConfigs
    /\ prev = <<>>
    /\ lastOp = "none"
    /\ fs = <<>>
    /\ indexed_snippets = <<>>
    /\ parsed = <<>>
    /\ parsedPath = <<>>
    /\ runs = 0
    /\ SearchIdle
    /\ WorkersIdle
    /\ StoreIdle

RankResults ==
    /\ prev' = results
    /\ results' = rank_results(results, query, weights)
    /\ lastOp' = "rank"
    /\ UNCHANGED <<query, weights, indexVars, searchVars, workerVars,
                   storeVars>>

FilterResults ==
    /\ prev' = results
    /\ results' = filter_results(results, query)
    /\ lastOp' = "filter"
    /\ UNCHANGED <<query, weights, indexVars, searchVars, workerVars,
                   storeVars>>

RankNext == RankResults \/ FilterResults

SpecRank == RankInit /\ [][RankNext]_vars

-----------------------------------------------------------------------------
(* Properties of the ranking engine                                        *)

InUnit(x, scale) == 0 <= x /\ x <= scale

\* C1: after rank_results every result's final relevance score is within
\* [0, 1], whatever its similarity score, sub-score inputs and boosts are and
\* on every return path of the score computation.
C1_FinalScoreInUnit ==
    lastOp = "rank" =>
        \A i \in 1..Len(results) : InUnit(results[i].relevance_score, FinalScale)

\* C9: each of the five computed sub-scores (keyword, quality, popularity,
\* recency, documentation) of every candidate is within [0, 1].
C9_SubScoresInUnit ==
    \A i \in 1..Len(results) :
        /\ InUnit(_calculate_keyword_score(results[i], query), SubScale)
        /\ InUnit(_calculate_quality_score(results[i]), SubScale)
        /\ InUnit(_calculate_popularity_score(results[i]), SubScale)
        /\ InUnit(_calculate_recency_score(results[i]), SubScale)
        /\ InUnit(_calculate_documentation_score(results[i]), SubScale)

\* C2 (ranking engine part): with the language filter ["python"] the list
\* returned by filter_results holds no snippet of another language.
C2_PythonFilterExcludesOthers ==
    (lastOp = "filter" /\ query.languages = <<"python">>) =>
        \A i \in 1..Len(results) : results[i].snippet.language = "python"

IndexPerms(n) ==
    {p \in [1..n -> 1..n] : \A i, j \in 1..n : i # j => p[i] # p[j]}

\* C4: rank_results returns a permutation of its input, ordered by
\* non-increasing final score, and candidates with equal final score keep
\* the order they had in the input (the deterministic secondary key).
C4_RankIsStableDescendingPermutation ==
    lastOp = "rank" =>
        /\ Len(results) = Len(prev)
        /\ \A i \in 1..(Len(results) - 1) :
               results[i].relevance_score >= results[i + 1].relevance_score
        /\ \E p \in IndexPerms(Len(prev)) :
               /\ \A i \in 1..Len(prev) :
                      results[i] = [prev[p[i]] EXCEPT
                          !.relevance_score = results[i].relevance_score]
               /\ \A i, j \in 1..Len(prev) :
                      (i < j /\ results[i].relevance_score = results[j].relevance_score)
                          => p[i] < p[j]

\* a ranked list that holds two different candidates with equal final score
C4_Witness_TieRanked ==
    /\ lastOp = "rank"
    /\ Len(results) >= 2
    /\ \E i \in 1..(Len(results) - 1) :
           /\ results[i].relevance_score = results[i + 1].relevance_score
           /\ results[i].id # results[i + 1].id

\* the error branch of filter_results is taken for a python-only query
C2_Witness_FilterRaised ==
    /\ lastOp = "filter"
    /\ query.languages = <<"python">>
    /\ FilterRaises(prev, query)

-----------------------------------------------------------------------------
(* CodeParser                                                              *)

p_py == <<"a", ".", "p", "y">>
p_go == <<"b", ".", "g", "o">>
p_txt == <<"n", ".", "m", "d">>

\* Path(file_path).suffix.lower()
RECURSIVE Suffix(_)
Suffix(path) ==
    IF path = <<>> THEN <<>>
    ELSE IF \E i \in 2..Len(path) : path[i] = "."
         THEN Suffix(Tail(path))
         ELSE IF path[1] = "." THEN Lower(path) ELSE <<>>

\* self.supported_extensions (the entries the model's paths can hit)
supported_extensions ==
    [e \in {<<".", "p", "y">>, <<".", "j", "s">>, <<".", "g", "o">>} |->
        CASE e = <<".", "p", "y">> -> "python"
          [] e = <<".", "j", "s">> -> "javascript"
          [] OTHER -> "go"]

\* f"{file_path}:{start_line}:{end_line}"
SnippetId(file_path, start_line, end_line) == <<file_path, start_line, end_line>>

ContainsAny(s, needles) == \E n \in needles : IsSubstr(n, s)

ControlKeywords ==
    { <<"i", "f", " ">>, <<"f", "o", "r", " ">>, <<"w", "h", "i", "l", "e", " ">>,
      <<"t", "r", "y", ":">>, <<"e", "x", "c", "e", "p", "t">>,
      <<"c", "a", "t", "c", "h">>, <<"s", "w", "i", "t", "c", "h">> }

DefinitionKeywords ==
    { <<"d", "e", "f", " ">>, <<"f", "u", "n", "c", "t", "i", "o", "n", " ">>,
      <<"c", "l", "a", "s", "s", " ">>, <<"m", "e", "t", "h", "o", "d", " ">> }

\* the bucketing with `<` in place of `<=`
ComplexityBucketExclusive(complexity_score) ==
    IF complexity_score < 2 THEN "low"
    ELSE IF complexity_score < 5 THEN "medium"
    ELSE "high"

ComplexityBucket(complexity_score) ==
    IF complexity_score <= 2 THEN "low"
    ELSE IF complexity_score <= 5 THEN "medium"
    ELSE "high"

SimpleComplexityScore(content) ==
    LET ls == SplitLines(content)
        pts == [i \in 1..Len(ls) |->
                   (IF ContainsAny(Strip(ls[i]), ControlKeywords) THEN 1 ELSE 0)
                 + (IF ContainsAny(Strip(ls[i]), DefinitionKeywords) THEN 2 ELSE 0)]
    IN  SumOver(1..Len(ls), pts)

_calculate_simple_complexity(content) ==
    ComplexityBucket(SimpleComplexityScore(content))

\* quality scores are counted in halves: 7.0 is 14
QScale == 1 + 1

\* line.strip().startswith(('#', '//', '/*'))
IsQualityCommentLine(line) ==
    LET st == Strip(line)
    IN  \/ StartsWith(st, <<"#">>)
        \/ StartsWith(st, <<"/", "/">>)
        \/ StartsWith(st, <<"/", "*">>)

\* the quality score without its comment factor
_calculate_quality_score_without_comments(content, complexity) ==
    LET n == Len(SplitLines(content))
        score == 7 * QScale
               + (IF 5 <= n /\ n <= 50 THEN QScale
                  ELSE IF n > 50 THEN 0 - QScale ELSE 0)
               + (IF complexity = "low" THEN 1
                  ELSE IF complexity = "high" THEN 0 - 1 ELSE 0)
    IN  Max(QScale, Min(10 * QScale, score))

_calculate_quality_score_of_content(content, complexity) ==
    LET ls == SplitLines(content)
        n == Len(ls)
        comment_lines == Cardinality({i \in 1..n : IsQualityCommentLine(ls[i])})
        score == 7 * QScale
               + (IF 5 <= n /\ n <= 50 THEN QScale
                  ELSE IF n > 50 THEN 0 - QScale ELSE 0)
               + (IF complexity = "low" THEN 1
                  ELSE IF complexity = "high" THEN 0 - 1 ELSE 0)
               + (IF n <= 10 * comment_lines /\ 10 * comment_lines <= 3 * n THEN 1
                  ELSE IF 2 * comment_lines > n THEN 0 - 1 ELSE 0)
    IN  Max(QScale, Min(10 * QScale, score))

\* string constants of the parser
k_function == <<"f", "u", "n", "c", "t", "i", "o", "n">>
k_class == <<"c", "l", "a", "s", "s">>
t_module == <<"m", "o", "d", "u", "l", "e">>
t_Function == <<"F", "u", "n", "c", "t", "i", "o", "n", " ">>
t_Class == <<"C", "l", "a", "s", "s", " ">>
t_code_block == 
    <<"C", "o", "d", "e", " ", "b", "l", "o", "c", "k", " ", "s", "t", "a", "r", "t", "i", "n", "g", " ", "a", "t", " ", "l", "i", "n", "e", " ">>
t_module_block == <<"m", "o", "d", "u", "l", "e", "_", "b", "l", "o", "c", "k", "_">>
t_module_level == 
    <<"M", "o", "d", "u", "l", "e", "-", "l", "e", "v", "e", "l", " ", "c", "o", "d", "e", " ", "b", "l", "o", "c", "k", " ", "s", "t", "a", "r", "t", "i", "n", "g", " ", "a", "t", " ", "l", "i", "n", "e", " ">>

\* str(n) of a line number
RECURSIVE Str(_)
Str(n) ==
    LET digit == <<"0", "1", "2", "3", "4", "5", "6", "7", "8", "9">>
    IN  IF n < 10 THEN <<digit[n + 1]>>
        ELSE Str(n \div 10) \o <<digit[(n % 10) + 1]>>

\* a character of [A-Za-z0-9_]
WordChar(c) ==
    c \notin {" ", "\t", "\n", "(", ")", "{", "}", "=", ">", "<", ";", ".", ",",
              "/", "#", ":", "*", "-", "+"}

\* \b in front of index i
BoundaryBefore(s, i) == i = 1 \/ ~WordChar(s[i - 1])

\* \b(?:w1|w2|...)\b
HasWord(s, words) ==
    \E w \in words : \E i \in 1..(Len(s) - Len(w) + 1) :
        /\ SubSeq(s, i, i + Len(w) - 1) = w
        /\ BoundaryBefore(s, i)
        /\ (i + Len(w) > Len(s) \/ ~WordChar(s[i + Len(w)]))

\* \b(?:w1|w2|...)\s+\w+
HasDeclaration(s, words) ==
    \E w \in words : \E i \in 1..(Len(s) - Len(w) - 1) :
        /\ SubSeq(s, i, i + Len(w) - 1) = w
        /\ BoundaryBefore(s, i)
        /\ IsSpace(s[i + Len(w)])
        /\ \E j \in (i + Len(w) + 1)..Len(s) :
               /\ WordChar(s[j])
               /\ \A k \in (i + Len(w))..(j - 1) : IsSpace(s[k])

\* the tag patterns, matched with re.IGNORECASE; list(set(tags)) has no
\* defined order, so the tags are a set
_extract_tags(content, language) ==
    LET c == Lower(content)
    IN  {language}
        \cup (IF HasDeclaration(c, {<<"d", "e", "f">>,
                                    <<"f", "u", "n", "c", "t", "i", "o", "n">>,
                                    <<"f", "u", "n", "c">>})
              THEN {"function"} ELSE {})
        \cup (IF HasDeclaration(c, {<<"c", "l", "a", "s", "s">>,
                                    <<"i", "n", "t", "e", "r", "f", "a", "c", "e">>})
              THEN {"class"} ELSE {})
        \cup (IF HasWord(c, {<<"a", "p", "i">>,
                             <<"e", "n", "d", "p", "o", "i", "n", "t">>,
                             <<"r", "o", "u", "t", "e">>})
              THEN {"api"} ELSE {})
        \cup (IF HasWord(c, {<<"s", "q", "l">>, <<"q", "u", "e", "r", "y">>,
                             <<"d", "a", "t", "a", "b", "a", "s", "e">>,
                             <<"d", "b">>})
              THEN {"database"} ELSE {})
        \cup (IF HasWord(c, {<<"a", "s", "y", "n", "c">>,
                             <<"a", "w", "a", "i", "t">>,
                             <<"p", "r", "o", "m", "i", "s", "e">>})
              THEN {"async"} ELSE {})
        \cup (IF HasWord(c, {<<"t", "e", "s", "t">>, <<"s", "p", "e", "c">>,
                             <<"a", "s", "s", "e", "r", "t">>})
              THEN {"test"} ELSE {})
        \cup (IF HasWord(c, {<<"s", "o", "r", "t">>,
                             <<"s", "e", "a", "r", "c", "h">>,
                             <<"f", "i", "l", "t", "e", "r">>,
                             <<"m", "a", "p">>,
                             <<"r", "e", "d", "u", "c", "e">>})
              THEN {"algorithm"} ELSE {})

MkSnippet(file_path, language, start_line, end_line, content, name, type, complexity, description) ==
    [id |-> SnippetId(file_path, start_line, end_line),
     content |-> content,
     language |-> language,
     file_path |-> file_path,
     line_start |-> start_line,
     line_end |-> end_line,
     name |-> name,
     type |-> type,
     complexity |-> complexity,
     quality_score |-> _calculate_quality_score_of_content(content, complexity),
     tags |-> _extract_tags(content, language),
     description |-> description]

-----------------------------------------------------------------------------
(* CodeParser._parse_generic_file                                          *)

MinBlockSize == 20

IsGenericCodeLine(line) ==
    LET stripped == Strip(line)
    IN  /\ stripped # <<>>
        /\ ~StartsWith(stripped, <<"/", "/">>)
        /\ ~StartsWith(stripped, <<"/", "*">>)

GenericSnippet(file_path, language, current_block, current_start, end_line) ==
    MkSnippet(file_path, language, current_start, end_line,
              JoinLines(current_block), <<"c", "o", "d", "e", "_", "b", "l", "o", "c", "k", "_">>
                  \o Str(current_start), <<"b", "l", "o", "c", "k">>,
              _calculate_simple_complexity(JoinLines(current_block)),
              t_code_block \o Str(current_start))

BigEnough(current_block) ==
    Len(Strip(JoinLines(current_block))) > MinBlockSize

\* the loop over enumerate(lines, 1), then the handling of the last block
RECURSIVE GenericScan(_, _, _, _, _, _, _)
GenericScan(lines, i, current_block, current_start, snippets, file_path, language) ==
    IF i > Len(lines)
    THEN IF current_block # <<>> /\ BigEnough(current_block)
         THEN Append(snippets, GenericSnippet(file_path, language, current_block,
                                              current_start, Len(lines)))
         ELSE snippets
    ELSE IF IsGenericCodeLine(lines[i])
         THEN GenericScan(lines, i + 1, Append(current_block, lines[i]),
                          current_start, snippets, file_path, language)
         ELSE IF current_block # <<>>
              THEN GenericScan(lines, i + 1, <<>>, i + 1,
                       IF BigEnough(current_block)
                       THEN Append(snippets,
                                GenericSnippet(file_path, language, current_block,
                                               current_start, i - 1))
                       ELSE snippets,
                       file_path, language)
              ELSE GenericScan(lines, i + 1, current_block, current_start,
                               snippets, file_path, language)

_parse_generic_file(content, file_path, language) ==
    GenericScan(SplitLines(content), 1, <<>>, 1, <<>>, file_path, language)

-----------------------------------------------------------------------------
(* CodeParser._parse_python_file                                           *)
(* ast.parse is modelled for the Python subset the model's files are       *)
(* written in: blank lines, '#' comment lines, simple statements in        *)
(* column 0, 'def name():' headers in column 0 and body lines indented by  *)
(* one level.                                                              *)

PyIgnored(line) == Strip(line) = <<>> \/ StartsWith(Strip(line), <<"#">>)
PyDef(line) == StartsWith(line, <<"d", "e", "f", " ">>)
PyIndented(line) == ~PyIgnored(line) /\ line[1] = " "

DefName(line) ==
    LET k == CHOOSE i \in 1..Len(line) :
                 line[i] = "(" /\ \A j \in 1..(i - 1) : line[j] # "("
    IN  SubSeq(line, 5, k - 1)

\* open = 0: no function is open; otherwise the line of the open 'def'.
\* last = 0: the open function has no body line yet; otherwise its last one.
RECURSIVE PyScan(_, _, _, _, _)
PyScan(lines, i, open, last, nodes) ==
    LET closed == IF open > 0
                  THEN Append(nodes, [kind |-> "function", lineno |-> open,
                                      end_lineno |-> last,
                                      name |-> DefName(lines[open])])
                  ELSE nodes
    IN  IF i > Len(lines)
        THEN IF open > 0 /\ last = 0
             THEN [ok |-> FALSE, nodes |-> <<>>]
             ELSE [ok |-> TRUE, nodes |-> closed]
        ELSE IF PyIgnored(lines[i])
             THEN PyScan(lines, i + 1, open, last, nodes)
        ELSE IF PyIndented(lines[i])
             THEN IF open = 0
                  THEN [ok |-> FALSE, nodes |-> <<>>]
                  ELSE PyScan(lines, i + 1, open, i, nodes)
        ELSE IF open > 0 /\ last = 0
             THEN [ok |-> FALSE, nodes |-> <<>>]
        ELSE IF PyDef(lines[i])
             THEN PyScan(lines, i + 1, i, 0, closed)
        ELSE PyScan(lines, i + 1, 0, 0, closed)

\* ast.parse(content): ok = FALSE stands for SyntaxError; nodes are the
\* definitions in ast.walk order
ast_parse(content) == PyScan(SplitLines(content), 1, 0, 0, <<>>)

\* _calculate_complexity: +2 for the FunctionDef itself, +3 for a ClassDef
AstComplexityScore(node) == IF node.kind = "class" THEN 3 ELSE 2

_calculate_complexity(node) == ComplexityBucket(AstComplexityScore(node))

\* lines[start_line-1:end_line]
LineSlice(lines, start_line, end_line) ==
    SubSeq(lines, start_line, Min(end_line, Len(lines)))

_extract_python_node(node, content, file_path) ==
    LET lines == SplitLines(content)
        start_line == node.lineno
        end_line == node.end_lineno
        snippet_content == JoinLines(LineSlice(lines, start_line, end_line))
    IN  MkSnippet(file_path, "python", start_line, end_line, snippet_content,
                  node.name, k_function, _calculate_complexity(node),
                  t_Function \o node.name)

\* [(i, line) for i, line in enumerate(lines, 1) if stripped and not '#...']
ModuleLineNumbers(lines) ==
    SelectSeq([i \in 1..Len(lines) |-> i],
              LAMBDA i : Strip(lines[i]) # <<>>
                           /\ ~StartsWith(Strip(lines[i]), <<"#">>))

MinModuleSize == 10

\* None when the stripped block is shorter than MinModuleSize
_create_module_snippet(content, file_path, start_line, end_line) ==
    LET lines == SplitLines(content)
        snippet_content == JoinLines(LineSlice(lines, start_line, end_line))
    IN  IF Len(Strip(snippet_content)) < MinModuleSize THEN <<>>
        ELSE << MkSnippet(file_path, "python", start_line, end_line,
                          snippet_content, t_module_block \o Str(start_line),
                          t_module, _calculate_simple_complexity(snippet_content),
                          t_module_level \o Str(start_line)) >>

BlockSnippet(content, file_path, block_start, block_end) ==
    IF block_end - block_start > 0
    THEN _create_module_snippet(content, file_path, block_start, block_end)
    ELSE <<>>

\* the grouping loop over module_lines[1:], then the last block
RECURSIVE GroupBlocks(_, _, _, _, _, _, _)
GroupBlocks(module_lines, i, block_start, block_end, snippets, content, file_path) ==
    IF i > Len(module_lines)
    THEN snippets \o BlockSnippet(content, file_path, block_start, block_end)
    ELSE IF module_lines[i] = module_lines[i - 1] + 1
         THEN GroupBlocks(module_lines, i + 1, block_start, module_lines[i],
                          snippets, content, file_path)
         ELSE GroupBlocks(module_lines, i + 1, module_lines[i], module_lines[i],
                          snippets \o BlockSnippet(content, file_path,
                                                   block_start, block_end),
                          content, file_path)

_extract_module_snippets(content, file_path) ==
    LET module_lines == ModuleLineNumbers(SplitLines(content))
    IN  IF module_lines = <<>> THEN <<>>
        ELSE GroupBlocks(module_lines, 2, module_lines[1], module_lines[1],
                         <<>>, content, file_path)

\* a SyntaxError is logged and the empty list is returned
_parse_python_file(content, file_path) ==
    LET tree == ast_parse(content)
    IN  IF ~tree.ok THEN <<>>
        ELSE [i \in 1..Len(tree.nodes) |->
                 _extract_python_node(tree.nodes[i], content, file_path)]
             \o _extract_module_snippets(content, file_path)

-----------------------------------------------------------------------------
(* CodeParser._parse_js_file                                               *)
(* The regular expressions are modelled by matchers over the characters:   *)
(* each returns the index just behind the match, or 0 when the pattern     *)
(* does not match at that index.                                           *)

\* \w
IsWordChar(c) == WordChar(c)

\* a literal at index i
Lit(s, i, lit) ==
    IF i > 0 /\ i + Len(lit) - 1 <= Len(s) /\ SubSeq(s, i, i + Len(lit) - 1) = lit
    THEN i + Len(lit) ELSE 0

\* \s* at index i (greedy)
RECURSIVE SkipWs(_, _)
SkipWs(s, i) ==
    IF i = 0 THEN 0
    ELSE IF i <= Len(s) /\ IsSpace(s[i]) THEN SkipWs(s, i + 1) ELSE i

\* \s+ at index i
Ws1(s, i) ==
    IF i > 0 /\ i <= Len(s) /\ IsSpace(s[i]) THEN SkipWs(s, i) ELSE 0

\* \w+ at index i (greedy)
RECURSIVE SkipWord(_, _)
SkipWord(s, i) ==
    IF i <= Len(s) /\ IsWordChar(s[i]) THEN SkipWord(s, i + 1) ELSE i

Word1(s, i) ==
    IF i > 0 /\ i <= Len(s) /\ IsWordChar(s[i]) THEN SkipWord(s, i) ELSE 0

\* [^c]*c at index i: behind the first c at or after i
RECURSIVE UpTo(_, _, _)
UpTo(s, i, c) ==
    IF i = 0 \/ i > Len(s) THEN 0
    ELSE IF s[i] = c THEN i + 1 ELSE UpTo(s, i + 1, c)

\* (?:kw\s+)? at index i
OptKw(s, i, kw) ==
    IF Ws1(s, Lit(s, i, kw)) > 0 THEN Ws1(s, Lit(s, i, kw)) ELSE i

k_export == <<"e", "x", "p", "o", "r", "t">>
k_async == <<"a", "s", "y", "n", "c">>
k_const == <<"c", "o", "n", "s", "t">>
k_let == <<"l", "e", "t">>
k_var == <<"v", "a", "r">>
k_extends == <<"e", "x", "t", "e", "n", "d", "s">>

\* \([^)]*\)\s*
Params(s, i) == SkipWs(s, UpTo(s, Lit(s, i, <<"(">>), ")"))

\* \{[^}]*\}
Braces(s, i) == UpTo(s, Lit(s, i, <<"{">>), "}")

\* (?:export\s+)?(?:async\s+)?function\s+(\w+)\s*\([^)]*\)\s*\{[^}]*\}
FunctionHead(s, i) ==
    Ws1(s, Lit(s, OptKw(s, OptKw(s, i, k_export), k_async), k_function))

FunctionMatch(s, i) ==
    Braces(s, Params(s, SkipWs(s, Word1(s, FunctionHead(s, i)))))

\* (?:export\s+)?kw\s+(\w+)\s*=\s*(?:async\s+)?\([^)]*\)\s*=>\s*\{[^}]*\}
ArrowHead(s, i, kw) == Ws1(s, Lit(s, OptKw(s, i, k_export), kw))

ArrowMatch(s, i, kw) ==
    LET eq == SkipWs(s, Lit(s, SkipWs(s, Word1(s, ArrowHead(s, i, kw))), <<"=">>))
        ar == SkipWs(s, Lit(s, Params(s, OptKw(s, eq, k_async)), <<"=", ">">>))
    IN  IF eq = 0 THEN 0 ELSE Braces(s, ar)

\* (?:export\s+)?class\s+(\w+)\s*\{[^}]*\}
ClassHead(s, i) == Ws1(s, Lit(s, OptKw(s, i, k_export), k_class))

ClassMatch(s, i) == Braces(s, SkipWs(s, Word1(s, ClassHead(s, i))))

\* (?:export\s+)?class\s+(\w+)\s+extends\s+\w+\s*\{[^}]*\}
ClassExtendsMatch(s, i) ==
    LET ext == Lit(s, Ws1(s, Word1(s, ClassHead(s, i))), k_extends)
    IN  Braces(s, SkipWs(s, Word1(s, Ws1(s, ext))))

function_patterns == <<"function", "const", "let", "var">>
class_patterns == <<"class", "class_extends">>

\* the index behind the match of the pattern at i, and the start of group 1
MatchEnd(pattern, s, i) ==
    CASE pattern = "function" -> FunctionMatch(s, i)
      [] pattern = "const" -> ArrowMatch(s, i, k_const)
      [] pattern = "let" -> ArrowMatch(s, i, k_let)
      [] pattern = "var" -> ArrowMatch(s, i, k_var)
      [] pattern = "class" -> ClassMatch(s, i)
      [] OTHER -> ClassExtendsMatch(s, i)

NameStart(pattern, s, i) ==
    CASE pattern = "function" -> FunctionHead(s, i)
      [] pattern = "const" -> ArrowHead(s, i, k_const)
      [] pattern = "let" -> ArrowHead(s, i, k_let)
      [] pattern = "var" -> ArrowHead(s, i, k_var)
      [] OTHER -> ClassHead(s, i)

\* re.finditer: the non-overlapping matches, leftmost first, as
\* [start, end) index pairs
RECURSIVE FindIter(_, _, _)
FindIter(pattern, s, i) ==
    IF i > Len(s) THEN <<>>
    ELSE IF MatchEnd(pattern, s, i) > 0
         THEN <<[start |-> i, end |-> MatchEnd(pattern, s, i)]>>
                  \o FindIter(pattern, s, MatchEnd(pattern, s, i))
         ELSE FindIter(pattern, s, i + 1)

\* content[:pos].count('\n') + 1, pos counted from 0
LineOfPrefix(s, n) ==
    Cardinality({j \in 1..n : s[j] = "\n"}) + 1

JsSnippet(pattern, m, content, file_path, language) ==
    LET start_pos == LineOfPrefix(content, m.start - 1)
        end_pos == LineOfPrefix(content, m.end - 1)
        snippet_content == SubSeq(content, m.start, m.end - 1)
        ns == NameStart(pattern, content, m.start)
        name == SubSeq(content, ns, SkipWord(content, ns) - 1)
        isClass == pattern \in Range(class_patterns)
    IN  MkSnippet(file_path, language, start_pos, end_pos, snippet_content,
                  name, IF isClass THEN k_class ELSE k_function,
                  _calculate_simple_complexity(snippet_content),
                  (IF isClass THEN t_Class ELSE t_Function) \o name)

JsMatches(pattern, content, file_path, language) ==
    LET ms == FindIter(pattern, content, 1)
    IN  [k \in 1..Len(ms) |-> JsSnippet(pattern, ms[k], content, file_path, language)]

RECURSIVE JsAllPatterns(_, _, _, _)
JsAllPatterns(patterns, content, file_path, language) ==
    IF patterns = <<>> THEN <<>>
    ELSE JsMatches(patterns[1], content, file_path, language)
             \o JsAllPatterns(Tail(patterns), content, file_path, language)

_parse_js_file(content, file_path, language) ==
    JsAllPatterns(function_patterns \o class_patterns, content, file_path, language)

-----------------------------------------------------------------------------
(* CodeParser.parse_file                                                   *)

\* file_path.exists()
Exists(files, file_path) == file_path \in DOMAIN files

parse_file(files, file_path) ==
    IF ~Exists(files, file_path) THEN <<>>
    ELSE IF Suffix(file_path) \notin DOMAIN supported_extensions THEN <<>>
    ELSE LET language == supported_extensions[Suffix(file_path)]
             content == files[file_path]
         IN  IF language = "python" THEN _parse_python_file(content, file_path)
             ELSE IF language \in {"javascript", "typescript"}
                  THEN _parse_js_file(content, file_path, language)
             ELSE _parse_generic_file(content, file_path, language)

-----------------------------------------------------------------------------
(* SemanticSearch._index_directory                                         *)

\* lines of the files the model writes
PY_DEF == <<"d", "e", "f", " ", "f", "(", ")", ":">>
PY_BODY == <<" ", " ", "y", "=", "2">>
JS_OPEN == <<"f", "u", "n", "c", "t", "i", "o", "n", " ", "f", "(", ")", "{">>
JS_ONE == <<"f", "u", "n", "c", "t", "i", "o", "n", " ", "g", "(", ")", "{", "}">>
JS_TWO ==
    <<" ", "f", "u", "n", "c", "t", "i", "o", "n", " ", "h", "(", ")", "{", "}">>
      \o <<"f", "u", "n", "c", "t", "i", "o", "n", " ", "k", "(", ")", "{", "}">>

p_js == <<"c", ".", "j", "s">>

MaxLines == 3
MaxIndexRuns == 2

LongLine == [i \in 1..(MinBlockSize + 1) |-> "a"]

PyLinePool ==
    { <<>>, <<"#", "c">>, <<"x", "=", "1">>, PY_DEF, PY_BODY }

\* a line of exactly MinBlockSize characters
EdgeLine == [i \in 1..MinBlockSize |-> "b"]

GenericLinePool ==
    { <<>>, <<"/", "/", "c">>, <<"x">>, LongLine, EdgeLine }

JsLinePool ==
    { <<>>, JS_OPEN, <<"x", "}">>, JS_ONE, JS_TWO }

FilesOver(pool) ==
    {JoinLines(ls) : ls \in SeqsUpTo(pool, MaxLines) \ {<<>>}}

OneFile(path, content) == [p \in {path} |-> content]

\* the directories the model indexes: one file of any supported kind, a
\* file of an unsupported kind, or a Python file next to a generic file
Directories ==
    {OneFile(p_py, c) : c \in FilesOver(PyLinePool)}
    \cup {OneFile(p_go, c) : c \in FilesOver(GenericLinePool)}
    \cup {OneFile(p_js, c) : c \in FilesOver(JsLinePool)}
    \cup {OneFile(p_txt, LongLine)}
    \cup {[p \in {p_py, p_go} |->
              IF p = p_py THEN JoinLines(<<PY_DEF, PY_BODY>>) ELSE c] :
          c \in {LongLine, JoinLines(<<<<"/", "/", "c">>, LongLine>>)}}

\* the sequences that list every member of S once: the orders in which
\* directory.rglob("*") may yield the files
RECURSIVE Orders(_)
Orders(S) ==
    IF S = {} THEN {<<>>}
    ELSE UNION {{<<x>> \o t : t \in Orders(S \ {x})} : x \in S}

RECURSIVE ParseAll(_, _)
ParseAll(files, order) ==
    IF order = <<>> THEN <<>>
    ELSE (IF Suffix(order[1]) \in DOMAIN supported_extensions
          THEN parse_file(files, order[1]) ELSE <<>>)
         \o ParseAll(files, Tail(order))

\* self.indexed_snippets.extend(snippets) for every file, in rglob order
_index_directory(snippets, files, order) == snippets \o ParseAll(files, order)

RankIdle ==
    /\ results = <<>>
    /\ query = BaseQuery
    /\ weights = SEARCH_WEIGHTS
    /\ prev = <<>>
    /\ lastOp = "none"

IndexInit ==
    /\ fs \in Directories
    /\ indexed_snippets = <<>>
    /\ parsed = <<>>
    /\ parsedPath = <<>>
    /\ runs = 0
    /\ RankIdle
    /\ SearchIdle
    /\ WorkersIdle
    /\ StoreIdle

IndexDirectory ==
    /\ runs < MaxIndexRuns
    /\ \E order \in Orders(DOMAIN fs) :
           indexed_snippets' = _index_directory(indexed_snippets, fs, order)
    /\ runs' = runs + 1
    /\ UNCHANGED <<fs, parsed, parsedPath, rankVars, searchVars, workerVars,
                   storeVars>>

ParseFile ==
    /\ \E file_path \in DOMAIN fs \cup {p_txt} :
           /\ parsed' = parse_file(fs, file_path)
           /\ parsedPath' = file_path
    /\ UNCHANGED <<fs, indexed_snippets, runs, rankVars, searchVars,
                   workerVars, storeVars>>

IndexNext == IndexDirectory \/ ParseFile

SpecIndex == IndexInit /\ [][IndexNext]_vars

\* the source lines start..end of the file a snippet was cut from
SourceSpan(files, snippet) ==
    JoinLines(LineSlice(SplitLines(files[snippet.file_path]),
                        snippet.line_start, snippet.line_end))

SpanMatchesSource(files, snippet) ==
    /\ snippet.line_start <= snippet.line_end
    /\ snippet.content = SourceSpan(files, snippet)

\* C5: every snippet the extractor produces, by any of its three strategies
\* and for any arrangement of blank, comment and code lines, has
\* start_line <= end_line and content equal to the file's source lines
\* start_line..end_line inclusive.
C5_SnippetSpansMatchSource ==
    /\ \A i \in 1..Len(parsed) : SpanMatchesSource(fs, parsed[i])
    /\ \A i \in 1..Len(indexed_snippets) :
           SpanMatchesSource(fs, indexed_snippets[i])

UniqueIds(snippets) ==
    \A i, j \in 1..Len(snippets) :
        i # j => snippets[i].id # snippets[j].id

\* C6: in every reachable state of the corpus, after any number of
\* directory-index runs, no two corpus snippets share an ID: one extraction
\* pass emits no two snippets with the same (file_path, start_line, end_line)
\* ID and re-indexing a file replaces its earlier snippets.
C6_CorpusIdsUnique ==
    /\ UniqueIds(parsed)
    /\ UniqueIds(indexed_snippets)

-----------------------------------------------------------------------------
(* SemanticSearch.search and find_similar_snippets                         *)

\* the characters of the language names and tags the corpus uses
Chars(word) ==
    CASE word = "python" -> <<"p", "y", "t", "h", "o", "n">>
      [] word = "javascript" ->
             <<"j", "a", "v", "a", "s", "c", "r", "i", "p", "t">>
      [] word = "go" -> <<"g", "o">>
      [] word = "algorithm" -> <<"a", "l", "g", "o", "r", "i", "t", "h", "m">>
      [] word = "function" -> k_function
      [] word = "class" -> k_class
      [] word = "api" -> <<"a", "p", "i">>
      [] word = "database" -> <<"d", "a", "t", "a", "b", "a", "s", "e">>
      [] word = "async" -> k_async
      [] word = "test" -> <<"t", "e", "s", "t">>

\* str.split(): the maximal runs of non-whitespace characters, in order
RECURSIVE SplitWords(_)
SplitWords(s) ==
    IF s = <<>> THEN <<>>
    ELSE IF IsSpace(s[1]) THEN SplitWords(Tail(s))
    ELSE LET ends == {i \in 1..Len(s) : IsSpace(s[i])}
             n == IF ends = {} THEN Len(s)
                  ELSE (CHOOSE i \in ends : \A j \in ends : i <= j) - 1
         IN  <<SubSeq(s, 1, n)>> \o SplitWords(SubSeq(s, n + 1, Len(s)))

\* lexical scores are kept in thousandths
LexScale == 10 * 100

Hit(cond, points) == IF cond THEN points ELSE 0

\* the points one keyword of the query adds
KeywordPoints(snippet, keyword) ==
    Hit(IsSubstr(keyword, Lower(snippet.content)), 100)
    + Hit(IsSubstr(keyword, Lower(snippet.name)), 200)
    + Hit(IsSubstr(keyword, Lower(snippet.description)), 150)

RECURSIVE SumKeywordPoints(_, _)
SumKeywordPoints(snippet, keywords) ==
    IF keywords = <<>> THEN 0
    ELSE KeywordPoints(snippet, keywords[1])
         + SumKeywordPoints(snippet, Tail(keywords))

\* SemanticSearch._calculate_relevance_score(snippet, query), query being
\* lower-cased by the caller; snippet.quality_score * 0.01 is 5 thousandths
\* for each half point of quality
SemanticSearch_calculate_relevance_score(snippet, q) ==
    LET score ==
            Hit(IsSubstr(q, Lower(snippet.content)), 800)
            + Hit(IsSubstr(q, Lower(snippet.name)), 900)
            + Hit(IsSubstr(q, Lower(snippet.description)), 700)
            + 600 * Cardinality({tag \in snippet.tags :
                                    IsSubstr(q, Lower(Chars(tag)))})
            + Hit(IsSubstr(q, Lower(Chars(snippet.language))), 500)
            + Hit(IsSubstr(q, Lower(snippet.type)), 400)
            + Hit(IsSubstr(q, Lower(snippet.file_path)), 300)
            + SumKeywordPoints(snippet, SplitWords(q))
            + (snippet.quality_score * (LexScale \div 100)) \div QScale
    IN  Min(LexScale, score)

_determine_match_type(snippet, q) ==
    IF IsSubstr(q, Lower(snippet.name)) THEN "exact_name"
    ELSE IF IsSubstr(q, Lower(snippet.content)) THEN "content_match"
    ELSE IF IsSubstr(q, Lower(snippet.description)) THEN "description_match"
    ELSE IF \E tag \in snippet.tags : IsSubstr(q, Lower(Chars(tag)))
         THEN "tag_match"
    ELSE "keyword_match"

k_mark_open == <<"<", "m", "a", "r", "k", ">">>
k_mark_close == <<"<", "/", "m", "a", "r", "k", ">">>

\* re.compile(re.escape(part), re.IGNORECASE).sub(repl, text)
RECURSIVE SubIgnoreCase(_, _, _)
SubIgnoreCase(part, repl, text) ==
    IF Len(text) < Len(part) THEN text
    ELSE IF Lower(SubSeq(text, 1, Len(part))) = Lower(part)
         THEN repl \o SubIgnoreCase(part, repl,
                                    SubSeq(text, Len(part) + 1, Len(text)))
    ELSE <<text[1]>> \o SubIgnoreCase(part, repl, Tail(text))

RECURSIVE HighlightParts(_, _)
HighlightParts(highlighted, query_parts) ==
    IF query_parts = <<>> THEN highlighted
    ELSE LET part == query_parts[1]
         IN  HighlightParts(
                 IF Len(part) > 2
                 THEN SubIgnoreCase(part, k_mark_open \o part \o k_mark_close,
                                    highlighted)
                 ELSE highlighted,
                 Tail(query_parts))

_highlight_matches(content, q) ==
    IF q = <<>> THEN content ELSE HighlightParts(content, SplitWords(q))

\* Python's list[start:end]: a negative index counts from the end of the
\* list, and both indices are clamped to the list
SliceIndex(list, i) ==
    IF i < 0 THEN Max(Len(list) + i, 0) ELSE Min(i, Len(list))

Slice(list, start, end) ==
    SubSeq(list, SliceIndex(list, start) + 1, SliceIndex(list, end))

\* Python's list[:n]
SliceTo(list, n) == Slice(list, 0, n)

\* results.sort(key=lambda x: x.score, reverse=True): stable, equal scores
\* keep the order in which they were appended
RECURSIVE InsertByScore(_, _)
InsertByScore(x, sorted) ==
    IF sorted = <<>> THEN <<x>>
    ELSE IF sorted[1].score >= x.score
         THEN <<sorted[1]>> \o InsertByScore(x, Tail(sorted))
         ELSE <<x>> \o sorted

RECURSIVE SortByScore(_)
SortByScore(rs) ==
    IF rs = <<>> THEN <<>>
    ELSE InsertByScore(rs[Len(rs)], SortByScore(SubSeq(rs, 1, Len(rs) - 1)))

\* the SearchResult search() builds for one snippet
SearchHit(snippet, q) ==
    [snippet |-> snippet,
     score |-> SemanticSearch_calculate_relevance_score(snippet, q),
     match_type |-> _determine_match_type(snippet, q),
     highlighted_content |-> _highlight_matches(snippet.content, q)]

\* SemanticSearch.search(query, max_results, similarity_threshold) over the
\* corpus snippets
search(snippets, q, max_results, similarity_threshold) ==
    IF snippets = <<>> THEN <<>>
    ELSE LET query_lower == Lower(q)
             hits == [i \in 1..Len(snippets) |->
                         SearchHit(snippets[i], query_lower)]
             Qualifies(h) == h.score >= similarity_threshold
         IN  SliceTo(SortByScore(SelectSeq(hits, Qualifies)), max_results)

\* similarities are kept in 600ths: exact while a snippet has at most six
\* tags and two contents have at most six different words between them
SimScale == 6 * 100

WordSet(content) == Range(SplitWords(Lower(content)))

_calculate_snippet_similarity(snippet1, snippet2) ==
    LET common_tags == snippet1.tags \cap snippet2.tags
        content1_words == WordSet(snippet1.content)
        content2_words == WordSet(snippet2.content)
    IN  Hit(snippet1.language = snippet2.language, 120)
        + Hit(snippet1.type = snippet2.type, 120)
        + (IF common_tags # {}
           THEN (180 * Cardinality(common_tags))
                \div Max(Cardinality(snippet1.tags),
                         Cardinality(snippet2.tags))
           ELSE 0)
        + (IF content1_words # {} /\ content2_words # {}
           THEN (180 * Cardinality(content1_words \cap content2_words))
                \div Cardinality(content1_words \cup content2_words)
           ELSE 0)

SimilarHit(target_snippet, snippet) ==
    [snippet |-> snippet,
     score |-> _calculate_snippet_similarity(target_snippet, snippet),
     match_type |-> "similarity",
     highlighted_content |-> snippet.content]

\* the scan of find_similar_snippets without its test on the snippet's ID
SimilarToAll(snippets, target_snippet, snippet_id, threshold) ==
    LET hits == [i \in 1..Len(snippets) |->
                    SimilarHit(target_snippet, snippets[i])]
        Qualifies(h) == h.score >= threshold
    IN  SelectSeq(hits, Qualifies)

\* the scan of find_similar_snippets: every snippet with another ID that is
\* similar enough to the target
SimilarToOthers(snippets, target_snippet, snippet_id, threshold) ==
    LET hits == [i \in 1..Len(snippets) |->
                    SimilarHit(target_snippet, snippets[i])]
        Qualifies(h) == h.snippet.id # snippet_id /\ h.score >= threshold
    IN  SelectSeq(hits, Qualifies)

\* SemanticSearch.find_similar_snippets(snippet_id, top_k, threshold)
find_similar_snippets(snippets, snippet_id, top_k, threshold) ==
    LET found == {i \in 1..Len(snippets) : snippets[i].id = snippet_id}
    IN  IF found = {} THEN <<>>
        ELSE LET first == CHOOSE i \in found : \A j \in found : i <= j
             IN  SliceTo(SortByScore(SimilarToOthers(snippets, snippets[first],
                                                     snippet_id, threshold)),
                         top_k)

-----------------------------------------------------------------------------
(* GET /search: api.routes.search.search_code                              *)

\* str.lower() of the language names a client sends
LowerName(word) ==
    CASE word = "Python" -> "python"
      [] word = "JavaScript" -> "javascript"
      [] OTHER -> word

\* the body of the response search_code builds from the filtered results
SearchResponse(search_query, hits, page, page_size) ==
    LET start_idx == (page - 1) * page_size
        end_idx == start_idx + page_size
    IN  IF page_size = 0
        THEN [status |-> 500]
        ELSE [status |-> 200,
              query |-> search_query,
              results |-> Slice(hits, start_idx, end_idx),
              total_results |-> Len(hits),
              page |-> page,
              page_size |-> page_size,
              total_pages |-> (Len(hits) + page_size - 1) \div page_size,
              has_next_page |-> end_idx < Len(hits),
              has_previous_page |-> page > 1]

\* search_code(q, languages, max_results, similarity_threshold, page,
\* page_size) over the corpus its SemanticSearch instance has indexed; the
\* HTTPException(422) of a missing query is raised inside the try block and
\* answered by its except clause
search_code(snippets, q, languages, max_results, similarity_threshold, page, page_size) ==
    IF q = <<>> THEN [status |-> 500]
    ELSE LET filtered_languages ==
                 {LowerName(languages[i]) : i \in 1..Len(languages)}
             search_results ==
                 search(snippets, q, max_results, similarity_threshold)
             InLanguages(h) ==
                 LowerName(h.snippet.language) \in filtered_languages
             kept == IF languages # <<>>
                     THEN SelectSeq(search_results, InLanguages)
                     ELSE search_results
         IN  SearchResponse(q, kept, page, page_size)

-----------------------------------------------------------------------------
(* The corpora searched                                                    *)

n_bubble_sort == <<"b", "u", "b", "b", "l", "e", "_", "s", "o", "r", "t">>
n_linear_search ==
    <<"l", "i", "n", "e", "a", "r", "_", "s", "e", "a", "r", "c", "h">>
n_Stack == <<"S", "t", "a", "c", "k">>

c_x == <<"x">>
c_Sort_x == <<"S", "o", "r", "t", " ", "x">>
d_plain == <<"d", "o", "c">>
d_sorts == <<"s", "o", "r", "t", "s">>

\* a corpus snippet with the fields CodeParser gives it
CorpusSnippet(file_path, language, start_line, end_line, name, type, tags, content, description, quality_score) ==
    [id |-> SnippetId(file_path, start_line, end_line),
     content |-> content,
     language |-> language,
     file_path |-> file_path,
     line_start |-> start_line,
     line_end |-> end_line,
     name |-> name,
     type |-> type,
     complexity |-> "low",
     quality_score |-> quality_score,
     tags |-> tags,
     description |-> description]

\* quality scores lie in 0..10, kept in halves
QualityPool == {0, 10 * QScale}

BubbleSorts ==
    {CorpusSnippet(p_py, "python", 1, 2, n_bubble_sort, k_function,
                   {"python", "algorithm"}, c, d, qs) :
        c \in {c_x, c_Sort_x}, d \in {d_plain, d_sorts}, qs \in QualityPool}

LinearSearches ==
    {CorpusSnippet(p_js, "javascript", 1, 2, n_linear_search, k_function,
                   {"javascript", "algorithm"}, c, d, qs) :
        c \in {c_x, c_Sort_x}, d \in {d_plain, d_sorts}, qs \in QualityPool}

Stacks ==
    {CorpusSnippet(p_py, "python", 4, 5, n_Stack, k_class,
                   {"python", "class"}, c_x, d_plain, 5 * QScale)}

\* the module block CodeParser emits with the ID of the class it spans
StackBlocks ==
    {CorpusSnippet(p_py, "python", 4, 5, t_module_block \o Str(4), t_module,
                   {"python", "class"}, c_x,
                   t_module_level \o Str(4), 5 * QScale)}

SnippetPool == BubbleSorts \cup LinearSearches \cup Stacks \cup StackBlocks

MaxCorpus == 2

\* the corpora: at most one snippet of each name, in any order
Corpora ==
    {c \in SeqsUpTo(SnippetPool, MaxCorpus) :
        \A i, j \in 1..Len(c) : i # j => c[i].name # c[j].name}

q_sort == <<"s", "o", "r", "t">>
q_Sort_x == <<"S", "o", "r", "t", " ", "x">>
q_zz == <<"z", "z">>

SearchQueries == {q_sort, q_Sort_x, q_zz, <<>>}

\* similarity thresholds in thousandths: 0.1 and 1.0
Thresholds == {LexScale \div 10, LexScale}

\* similarity thresholds of find_similar_snippets: 0.05 and 0.7
SimilarThresholds == {SimScale \div 20, (7 * SimScale) \div 10}

\* the IDs asked for: those of the corpus snippets and one of no snippet
SnippetIds == {sn.id : sn \in SnippetPool} \cup {SnippetId(p_go, 1, 1)}

\* the calls made on a SemanticSearch instance, and the GET /search requests
SearchRequests ==
    [op : {"search"}, query : SearchQueries,
     max_results : (-1)..MaxResults, similarity_threshold : Thresholds,
     served : {FALSE}]

SimilarRequests ==
    [op : {"similar"}, snippet_id : SnippetIds, top_k : 0..MaxResults,
     threshold : SimilarThresholds, served : {FALSE}]

SearchCodeRequests ==
    [op : {"search_code"}, query : SearchQueries,
     languages : {<<>>, <<"Python">>}, max_results : 1..MaxResults,
     similarity_threshold : {LexScale \div 10}, page : 1..2,
     page_size : {1, 20}, served : {FALSE}]

SearchInit ==
    /\ indexed_snippets \in Corpora
    /\ req \in SearchRequests \cup SimilarRequests \cup SearchCodeRequests
    /\ out = <<>>
    /\ fs = <<>>
    /\ parsed = <<>>
    /\ parsedPath = <<>>
    /\ runs = 0
    /\ RankIdle
    /\ WorkersIdle
    /\ StoreIdle

Search ==
    /\ req.op = "search" /\ ~req.served
    /\ out' = search(indexed_snippets, req.query, req.max_results,
                     req.similarity_threshold)
    /\ req' = [req EXCEPT !.served = TRUE]
    /\ UNCHANGED <<rankVars, indexVars, workerVars, storeVars>>

FindSimilar ==
    /\ req.op = "similar" /\ ~req.served
    /\ out' = find_similar_snippets(indexed_snippets, req.snippet_id,
                                    req.top_k, req.threshold)
    /\ req' = [req EXCEPT !.served = TRUE]
    /\ UNCHANGED <<rankVars, indexVars, workerVars, storeVars>>

SearchCode ==
    /\ req.op = "search_code" /\ ~req.served
    /\ out' = search_code(indexed_snippets, req.query, req.languages,
                          req.max_results, req.similarity_threshold,
                          req.page, req.page_size)
    /\ req' = [req EXCEPT !.served = TRUE]
    /\ UNCHANGED <<rankVars, indexVars, workerVars, storeVars>>

SearchNext == Search \/ FindSimilar \/ SearchCode

SpecSearch == SearchInit /\ [][SearchNext]_vars

-----------------------------------------------------------------------------
(* Properties of search and find_similar_snippets                          *)

SearchServed == req.op = "search" /\ req.served

\* the corpus positions whose capped lexical score reaches the threshold
QualifyingPositions ==
    {i \in 1..Len(indexed_snippets) :
        SemanticSearch_calculate_relevance_score(
            indexed_snippets[i], Lower(req.query)) >= req.similarity_threshold}

\* C3: search returns exactly the corpus snippets whose capped lexical score
\* is at least similarity_threshold, in non-increasing score order, cut to the
\* first max_results entries: every returned score lies in [threshold, 1.0],
\* no qualifying snippet that belongs among the top max_results is missing,
\* and the result never has more than max_results entries (none when
\* max_results is negative), for any integer max_results.
C3_SearchReturnsTopQualifying ==
    SearchServed =>
        LET Score(sn) ==
                SemanticSearch_calculate_relevance_score(sn, Lower(req.query))
            limit == Max(req.max_results, 0)
            Returned(i) ==
                \E k \in 1..Len(out) : out[k].snippet = indexed_snippets[i]
        IN  /\ \A k \in 1..Len(out) :
                   /\ out[k].score >= req.similarity_threshold
                   /\ out[k].score <= LexScale
                   /\ out[k].score = Score(out[k].snippet)
                   /\ \E i \in QualifyingPositions :
                          out[k].snippet = indexed_snippets[i]
            /\ \A k \in 1..(Len(out) - 1) : out[k].score >= out[k + 1].score
            /\ \A i \in QualifyingPositions :
                   ~Returned(i) =>
                       /\ Len(out) = limit
                       /\ \A k \in 1..Len(out) :
                              out[k].score >= Score(indexed_snippets[i])
            /\ Len(out) <= limit

\* C7: find_similar_snippets never returns a result whose snippet ID equals
\* the queried snippet ID, and returns an empty list when the queried ID is
\* not in the corpus, for every corpus, snippet ID, top_k and threshold.
C7_SimilarExcludesQueried ==
    (req.op = "similar" /\ req.served) =>
        /\ \A k \in 1..Len(out) : out[k].snippet.id # req.snippet_id
        /\ (\A i \in 1..Len(indexed_snippets) :
                indexed_snippets[i].id # req.snippet_id) => out = <<>>

\* a snippet of the corpus was queried and another snippet was returned
C7_Witness_SimilarFound ==
    /\ req.op = "similar" /\ req.served
    /\ \E i \in 1..Len(indexed_snippets) :
           indexed_snippets[i].id = req.snippet_id
    /\ Len(out) >= 1

PositionOf(name) ==
    {k \in 1..Len(out) : out[k].snippet.name = name}

\* C8: with a corpus of exactly a bubble_sort function and a linear_search
\* function, searching "sort" with similarity_threshold 0.1 returns
\* bubble_sort, and linear_search is never placed before it, for every
\* insertion order and every content, description and quality score.
C8_BubbleSortRankedFirst ==
    (/\ SearchServed
     /\ req.query = q_sort
     /\ req.similarity_threshold = LexScale \div 10
     /\ req.max_results >= Len(indexed_snippets)
     /\ Len(indexed_snippets) = 2
     /\ {indexed_snippets[i].name : i \in 1..2}
            = {n_bubble_sort, n_linear_search})
    => /\ PositionOf(n_bubble_sort) # {}
       /\ \A k \in PositionOf(n_bubble_sort), j \in PositionOf(n_linear_search) :
              k < j

-----------------------------------------------------------------------------
(* Worker processes serving GET /search side by side: each request builds  *)
(* its own SemanticSearch, which rewrites the files of sample_code/ and    *)
(* indexes that directory; the directory is shared by the processes        *)

MaxWorkers == 2

Workers == 1..MaxWorkers

\* the sources _create_sample_files writes, cut down to one definition each
SAMPLE_PY == JoinLines(<<PY_DEF, PY_BODY>>)
SAMPLE_JS == JS_ONE

SampleFiles == [p \in {p_py, p_js} |-> IF p = p_py THEN SAMPLE_PY ELSE SAMPLE_JS]

\* the directory after a write of content to path
WithFile(files, path, content) ==
    [p \in DOMAIN files \cup {path} |->
        IF p = path THEN content ELSE files[p]]

NotAnswered == [done |-> FALSE, snippets |-> <<>>, results |-> <<>>]

\* what the worker processes leave alone
unshared == <<indexed_snippets, parsed, parsedPath, runs, rankVars, searchVars, storeVars>>

WorkersInit ==
    /\ fs \in {<<>>, SampleFiles}
    /\ pc = [w \in Workers |-> "idle"]
    /\ corpus = [w \in Workers |-> <<>>]
    /\ todo = [w \in Workers |-> <<>>]
    /\ answered = [w \in Workers |-> NotAnswered]
    /\ indexed_snippets = <<>>
    /\ parsed = <<>>
    /\ parsedPath = <<>>
    /\ runs = 0
    /\ RankIdle
    /\ SearchIdle
    /\ StoreIdle

\* open(path, "w") creates or truncates the file; the text written stays in
\* the writer's buffer until the file is closed
OpenSample(w, at, path, next) ==
    /\ pc[w] = at
    /\ fs' = WithFile(fs, path, <<>>)
    /\ pc' = [pc EXCEPT ![w] = next]

CloseSample(w, at, path, content, next) ==
    /\ pc[w] = at
    /\ fs' = WithFile(fs, path, content)
    /\ pc' = [pc EXCEPT ![w] = next]

\* SemanticSearch(): an empty corpus, then open(sample_dir / "algorithms.py")
OpenPy(w) ==
    /\ OpenSample(w, "idle", p_py, "py_open")
    /\ corpus' = [corpus EXCEPT ![w] = <<>>]
    /\ UNCHANGED <<todo, answered, unshared>>

ClosePy(w) ==
    /\ CloseSample(w, "py_open", p_py, SAMPLE_PY, "py_written")
    /\ UNCHANGED <<corpus, todo, answered, unshared>>

OpenJs(w) ==
    /\ OpenSample(w, "py_written", p_js, "js_open")
    /\ UNCHANGED <<corpus, todo, answered, unshared>>

CloseJs(w) ==
    /\ CloseSample(w, "js_open", p_js, SAMPLE_JS, "js_written")
    /\ UNCHANGED <<corpus, todo, answered, unshared>>

\* directory.rglob("*") lists the files of the directory
ListDirectory(w) ==
    /\ pc[w] = "js_written"
    /\ \E order \in Orders(DOMAIN fs) : todo' = [todo EXCEPT ![w] = order]
    /\ pc' = [pc EXCEPT ![w] = "indexing"]
    /\ UNCHANGED <<fs, corpus, answered, unshared>>

\* one turn of the loop of _index_directory: parse_file reads the file as it
\* is now and the snippets are appended to the corpus
ReadFile(w) ==
    /\ pc[w] = "indexing"
    /\ todo[w] # <<>>
    /\ corpus' = [corpus EXCEPT
                      ![w] = _index_directory(@, fs, <<todo[w][1]>>)]
    /\ todo' = [todo EXCEPT ![w] = Tail(@)]
    /\ UNCHANGED <<fs, pc, answered, unshared>>

\* semantic_search.search(...) runs over the corpus built so far
RunSearch(w) ==
    /\ pc[w] = "indexing"
    /\ todo[w] = <<>>
    /\ answered' = [answered EXCEPT
                        ![w] = [done |-> TRUE, snippets |-> corpus[w],
                                results |-> search(corpus[w], q_sort,
                                                   MaxResults,
                                                   LexScale \div 10)]]
    /\ pc' = [pc EXCEPT ![w] = "idle"]
    /\ UNCHANGED <<fs, corpus, todo, unshared>>

WorkersNext ==
    \E w \in Workers :
        \/ OpenPy(w)
        \/ ClosePy(w)
        \/ OpenJs(w)
        \/ CloseJs(w)
        \/ ListDirectory(w)
        \/ ReadFile(w)
        \/ RunSearch(w)

SpecWorkers == WorkersInit /\ [][WorkersNext]_vars

\* the snippets of a fully built index: those of both complete sample files
FullCorpus ==
    Range(parse_file(SampleFiles, p_py)) \cup Range(parse_file(SampleFiles, p_js))

\* C10: when corpus construction runs concurrently with other requests'
\* constructions and searches, no search runs over a partially built corpus:
\* every search sees the complete snippet set of a fully built index, under
\* every interleaving of file writes, file reads and corpus appends.
C10_SearchSeesCompleteCorpus ==
    \A w \in Workers :
        answered[w].done => Range(answered[w].snippets) = FullCorpus

-----------------------------------------------------------------------------
(* Properties of CodeParser.parse_file on files that do not parse          *)

\* a Python file was handed to parse_file and ast.parse rejected it
PythonParseFailed ==
    /\ parsedPath = p_py
    /\ p_py \in DOMAIN fs
    /\ ~ast_parse(fs[p_py]).ok

\* C11: parse_file never raises to its caller, and when a file fails its
\* structural (Python AST) parse the extraction degrades to the generic
\* line-block strategy, so the caller receives the generic blocks of that
\* file rather than no snippets.
C11_FailedParseFallsBackToGeneric ==
    PythonParseFailed =>
        parsed = _parse_generic_file(fs[p_py], p_py, "python")

-----------------------------------------------------------------------------
(* EmbeddingGenerator (indexing/embedding_generator.py)                    *)

\* get_embedding_dimension: the output dimensionality of the models
CODEBERT_DIM == 768
SENTENCE_DIM == 384

get_embedding_dimension(model_type) ==
    CASE model_type = "codebert" -> CODEBERT_DIM
      [] model_type = "graphcodebert" -> CODEBERT_DIM
      [] model_type = "sentence" -> SENTENCE_DIM
      [] model_type = "hybrid" -> CODEBERT_DIM
      [] OTHER -> CODEBERT_DIM

\* a vector of dimension d is written with d \div DimUnit components, so a
\* CodeBERT vector is twice as long as a sentence-transformer vector
DimUnit == SENTENCE_DIM
VectorLen(model_type) == get_embedding_dimension(model_type) \div DimUnit

\* Optional[List[float]]
None == [some |-> FALSE, v |-> <<>>]
Some(vector) == [some |-> TRUE, v |-> vector]

\* `if codebert_emb:` : None and the empty list are false
Truthy(emb) == emb.some /\ emb.v # <<>>

SumAt(vectors, i) ==
    LET RECURSIVE Go(_)
        Go(k) == IF k = 0 THEN 0 ELSE vectors[k][i] + Go(k - 1)
    IN Go(Len(vectors))

\* np.mean(embeddings, axis=0): the element-wise mean of equally long
\* vectors; a ragged list of vectors makes numpy raise
np_mean(embeddings) ==
    IF \A k \in 1..Len(embeddings) : Len(embeddings[k]) = Len(embeddings[1])
    THEN [ok |-> TRUE,
          v |-> [i \in 1..Len(embeddings[1]) |->
                    SumAt(embeddings, i) \div Len(embeddings)]]
    ELSE [ok |-> FALSE, v |-> <<>>]

\* _generate_hybrid_embedding, given what _generate_codebert_embedding and
\* _generate_sentence_embedding returned (each catches its own exceptions and
\* returns None); the whole body is inside try/except Exception: return None
_generate_hybrid_embedding(codebert_emb, sentence_emb) ==
    LET embeddings ==
            (IF Truthy(codebert_emb) THEN <<codebert_emb.v>> ELSE <<>>)
            \o (IF Truthy(sentence_emb) THEN <<sentence_emb.v>> ELSE <<>>)
        combined == np_mean(embeddings)
    IN  IF embeddings = <<>> THEN None
        ELSE IF Len(embeddings) = 1 THEN Some(embeddings[1])
        ELSE IF combined.ok THEN Some(combined.v)
        ELSE None

\* vector components; even, so that the mean of two vectors is exact
Components == {-2, 0, 2}
VectorsOf(model_type) == [1..VectorLen(model_type) -> Components]

HybridRequests ==
    [op : {"hybrid"},
     codebert_emb : {None} \cup {Some(v) : v \in VectorsOf("codebert")},
     sentence_emb : {None} \cup {Some(v) : v \in VectorsOf("sentence")},
     served : {FALSE}]

Dot(a, b) ==
    LET RECURSIVE Go(_)
        Go(i) == IF i = 0 THEN 0 ELSE a[i] * b[i] + Go(i - 1)
    IN Go(Len(a))

\* np.linalg.norm, for the vectors used here, whose norm is a whole number
Norm(a) == CHOOSE r \in 0..Dot(a, a) : r * r = Dot(a, a)

\* calculate_similarity: a cosine in units of 1/SimScale.  Dividing a zero
\* vector by its norm gives nan components (a warning, no exception) and a
\* nan similarity; np.dot raises on vectors of different length and the
\* except branch returns 0.0
calculate_similarity(embedding1, embedding2) ==
    IF Len(embedding1) # Len(embedding2) THEN [nan |-> FALSE, value |-> 0]
    ELSE IF Norm(embedding1) = 0 \/ Norm(embedding2) = 0
         THEN [nan |-> TRUE, value |-> 0]
    ELSE [nan |-> FALSE,
          value |-> (Dot(embedding1, embedding2) * SimScale)
                        \div (Norm(embedding1) * Norm(embedding2))]

\* `similarity >= threshold` is False for nan
AtLeast(similarity, threshold) ==
    ~similarity.nan /\ similarity.value >= threshold

\* the loop over snippet_embeddings.items(), a dict: insertion order
RECURSIVE Similarities(_, _, _)
Similarities(query_embedding, snippet_embeddings, threshold) ==
    IF snippet_embeddings = <<>> THEN <<>>
    ELSE LET item == snippet_embeddings[1]
             similarity == calculate_similarity(query_embedding,
                                                item.embedding)
         IN  (IF AtLeast(similarity, threshold)
              THEN <<[id |-> item.id, score |-> similarity.value]>>
              ELSE <<>>)
             \o Similarities(query_embedding, Tail(snippet_embeddings),
                             threshold)

\* EmbeddingGenerator.find_similar_snippets
EmbeddingGenerator_find_similar_snippets(query_embedding, snippet_embeddings, top_k, threshold) ==
    SliceTo(SortByScore(Similarities(query_embedding, snippet_embeddings,
                                     threshold)), top_k)

\* snippet IDs, in ascending (string) order
EmbeddingIds == <<"s1", "s2", "s3">>
IdRank(id) == CHOOSE i \in 1..Len(EmbeddingIds) : EmbeddingIds[i] = id

\* stored and query vectors: axis-aligned CodeBERT vectors (cosines -1, 0
\* and 1 are exact in floating point too), the zero vector, and a vector of
\* the sentence-transformer dimension
StoredVectors == {<<2, 0>>, <<0, 2>>, <<-2, 0>>, <<0, 0>>, <<2>>}
QueryVectors == {<<2, 0>>, <<0, 2>>}

MaxEmbeddings == 2

\* dicts of at most MaxEmbeddings entries, in every insertion order
EmbeddingDicts ==
    {d \in SeqsUpTo([id : Range(EmbeddingIds), embedding : StoredVectors], MaxEmbeddings) :
        \A i, j \in 1..Len(d) : i # j => d[i].id # d[j].id}

\* 0.7 is the default threshold, 10 the default top_k
NeighbourThresholds == {0, (7 * SimScale) \div 10}
DefaultTopK == 10

NeighbourRequests ==
    [op : {"neighbours"}, query_embedding : QueryVectors,
     snippet_embeddings : EmbeddingDicts, top_k : {1, 2, DefaultTopK},
     threshold : NeighbourThresholds, served : {FALSE}]

EmbedInit ==
    /\ req \in HybridRequests \cup NeighbourRequests
    /\ out = <<>>
    /\ store = <<>>
    /\ fs = <<>>
    /\ indexed_snippets = <<>>
    /\ parsed = <<>>
    /\ parsedPath = <<>>
    /\ runs = 0
    /\ RankIdle
    /\ WorkersIdle

HybridEmbedding ==
    /\ req.op = "hybrid" /\ ~req.served
    /\ out' = _generate_hybrid_embedding(req.codebert_emb, req.sentence_emb)
    /\ req' = [req EXCEPT !.served = TRUE]
    /\ UNCHANGED <<rankVars, indexVars, workerVars, storeVars>>

FindSimilarEmbeddings ==
    /\ req.op = "neighbours" /\ ~req.served
    /\ out' = EmbeddingGenerator_find_similar_snippets(
                  req.query_embedding, req.snippet_embeddings, req.top_k,
                  req.threshold)
    /\ req' = [req EXCEPT !.served = TRUE]
    /\ UNCHANGED <<rankVars, indexVars, workerVars, storeVars>>

EmbedNext == HybridEmbedding \/ FindSimilarEmbeddings

SpecEmbed == EmbedInit /\ [][EmbedNext]_vars

\* the vectors of the underlying strategies that succeeded
Succeeded(r) ==
    (IF r.codebert_emb.some THEN <<r.codebert_emb.v>> ELSE <<>>)
    \o (IF r.sentence_emb.some THEN <<r.sentence_emb.v>> ELSE <<>>)

\* v holds, at every position all the vectors have, the mean of their
\* components
IsElementwiseAverage(v, vectors) ==
    \A i \in 1..Len(v) :
        (\A k \in 1..Len(vectors) : i \in 1..Len(vectors[k]))
            => v[i] * Len(vectors) = SumAt(vectors, i)

\* C12: the hybrid strategy returns the element-wise average of the
\* underlying strategies' vectors when two or more succeed, the single
\* successful vector unchanged when exactly one succeeds, and no vector when
\* all fail, for every combination of success and failure of the 768- and
\* 384-dimensional strategies.
C12_HybridCombinesStrategies ==
    (req.op = "hybrid" /\ req.served) =>
        LET succeeded == Succeeded(req)
        IN  CASE Len(succeeded) = 0 -> out = None
              [] Len(succeeded) = 1 -> out = Some(succeeded[1])
              [] OTHER -> /\ out.some
                          /\ Len(out.v) = VectorLen("hybrid")
                          /\ IsElementwiseAverage(out.v, succeeded)

\* a before b in the required result order: higher score first, equal scores
\* by ascending snippet ID
RanksBefore(a, b) ==
    \/ a.score > b.score
    \/ a.score = b.score /\ IdRank(a.id) < IdRank(b.id)

\* the stored entries whose similarity to the query is at least the threshold
Qualifying(r) ==
    {[id |-> item.id,
      score |-> calculate_similarity(r.query_embedding, item.embedding).value] :
        item \in {it \in Range(r.snippet_embeddings) :
                    AtLeast(calculate_similarity(r.query_embedding, it.embedding),
                            r.threshold)}}

\* C13: the embedding nearest-neighbour query returns only entries with
\* score >= the threshold, sorted by descending score with equal scores in
\* ascending snippet-ID order, whatever the insertion order of the stored
\* vectors, cut to the first top_k: the returned list is the first top_k
\* entries of the qualifying set in that order.
C13_NeighboursOrderedByScoreThenId ==
    (req.op = "neighbours" /\ req.served) =>
        /\ Range(out) \subseteq Qualifying(req)
        /\ Len(out) = Min(req.top_k, Cardinality(Qualifying(req)))
        /\ \A i, j \in 1..Len(out) : i < j => RanksBefore(out[i], out[j])
        /\ \A e \in Qualifying(req) \ Range(out) :
               \A i \in 1..Len(out) : RanksBefore(out[i], e)

-----------------------------------------------------------------------------
(* VectorStore (database/vector_store.py) over a Qdrant server             *)

\* _initialize_collections: the collections created, with their vector size
collections ==
    [codebert |-> CODEBERT_DIM, graphcodebert |-> CODEBERT_DIM,
     sentence |-> SENTENCE_DIM, hybrid |-> CODEBERT_DIM]

\* PointStruct(id=point_id, vector=vector, payload=payload)
PointStruct(point_id, vector, payload) ==
    [id |-> point_id, vector |-> vector, payload |-> payload]

\* client.upsert with an insert that never looks for the point's ID
upsert_insert_only(points, point) == points \cup {point}

\* client.upsert(collection_name, points=[point]): the point is inserted, or
\* takes the place of the stored point that has its ID
upsert(points, point) ==
    {p \in points : p.id # point.id} \cup {point}

\* client.delete(collection_name, points_selector=[point_id]): the points
\* with one of the listed IDs are removed
delete(points, point_id) == {p \in points : p.id # point_id}

\* the client call raises when the server cannot be reached, and upsert also
\* when the vector has not the size of the collection
UpsertRaises(collection, vector, reachable) ==
    \/ ~reachable
    \/ Len(vector) * DimUnit # collections[collection]

\* add_embedding: True, or False from the except branch
add_embedding(st, collection, point_id, vector, payload, reachable) ==
    IF UpsertRaises(collection, vector, reachable)
    THEN [store |-> st, returned |-> FALSE]
    ELSE [store |-> [st EXCEPT ![collection] =
                        upsert(@, PointStruct(point_id, vector, payload))],
          returned |-> TRUE]

\* delete_embedding: True, or False from the except branch
delete_embedding(st, collection, point_id, reachable) ==
    IF ~reachable
    THEN [store |-> st, returned |-> FALSE]
    ELSE [store |-> [st EXCEPT ![collection] = delete(@, point_id)],
          returned |-> TRUE]

\* the calls made on the store
StoreCollections == {"codebert", "sentence"}
StoreIds == {"s1", "s2"}
StoreVectors == {<<2, 0>>, <<0, 2>>, <<2>>}
Payloads == {[language |-> "python"]}

\* VectorStore() connected to a server that holds no point
StoreInit ==
    /\ store = [c \in DOMAIN collections |-> {}]
    /\ req = [op |-> "none", served |-> TRUE]
    /\ out = <<>>
    /\ fs = <<>>
    /\ indexed_snippets = <<>>
    /\ parsed = <<>>
    /\ parsedPath = <<>>
    /\ runs = 0
    /\ RankIdle
    /\ WorkersIdle

\* req records the call and the store it was made on
AddEmbedding ==
    /\ \E collection \in StoreCollections, point_id \in StoreIds,
          vector \in StoreVectors, payload \in Payloads,
          reachable \in BOOLEAN :
           LET r == add_embedding(store, collection, point_id, vector,
                                  payload, reachable)
           IN  /\ store' = r.store
               /\ out' = r.returned
               /\ req' = [op |-> "add", collection |-> collection,
                          point_id |-> point_id, vector |-> vector,
                          payload |-> payload, reachable |-> reachable,
                          before |-> store, served |-> TRUE]
    /\ UNCHANGED <<rankVars, indexVars, workerVars>>

DeleteEmbedding ==
    /\ \E collection \in StoreCollections, point_id \in StoreIds,
          reachable \in BOOLEAN :
           LET r == delete_embedding(store, collection, point_id, reachable)
           IN  /\ store' = r.store
               /\ out' = r.returned
               /\ req' = [op |-> "delete", collection |-> collection,
                          point_id |-> point_id, reachable |-> reachable,
                          before |-> store, served |-> TRUE]
    /\ UNCHANGED <<rankVars, indexVars, workerVars>>

StoreNext == AddEmbedding \/ DeleteEmbedding

SpecStore == StoreInit /\ [][StoreNext]_vars

\* the points stored for an ID in a collection
StoredFor(st, collection, point_id) ==
    {p \in st[collection] : p.id = point_id}

-----------------------------------------------------------------------------
(* Properties of GET /search on requests without query text                *)

\* a GET /search request without query text has been answered
EmptyQueryAnswered ==
    req.op = "search_code" /\ req.served /\ req.query = <<>>

\* C15: a search request with empty or missing query text is answered with
\* the caller-error rejection (status 422), not with a server-failure
\* response, and no corpus search is made for it: the answer carries no
\* results.
C15_EmptyQueryRejectedAs422 ==
    EmptyQueryAnswered =>
        /\ out.status = 422
        /\ "results" \notin DOMAIN out

-----------------------------------------------------------------------------
(* QueryProcessor (search/query_processor.py)                              *)

\* re.sub(r'\s+', ' ', s): every run of whitespace becomes one space
RECURSIVE CollapseSpaces(_)
CollapseSpaces(s) ==
    IF s = <<>> THEN <<>>
    ELSE IF IsSpace(s[1])
         THEN IF Len(s) > 1 /\ IsSpace(s[2])
              THEN CollapseSpaces(Tail(s))
              ELSE <<" ">> \o CollapseSpaces(Tail(s))
    ELSE <<s[1]>> \o CollapseSpaces(Tail(s))

\* re.sub(r'[^\w\s\-_\.]', ' ', s)
BlankSpecial(s) ==
    [i \in 1..Len(s) |->
        IF WordChar(s[i]) \/ IsSpace(s[i]) \/ s[i] \in {"-", "_", "."}
        THEN s[i] ELSE " "]

\* _normalize_query without its last whitespace pass
_normalize_query_one_pass(q) ==
    BlankSpecial(Lower(CollapseSpaces(Strip(q))))

\* _normalize_query
_normalize_query(q) ==
    CollapseSpaces(Strip(BlankSpecial(Lower(CollapseSpaces(Strip(q))))))

\* query strings: letters of both cases, whitespace, a special character and
\* a kept punctuation character
QueryAlphabet == {"s", "S", " ", "\t", "+", "-"}
MaxQueryLen == 4

NormalizeRequests ==
    [op : {"normalize"}, query : SeqsUpTo(QueryAlphabet, MaxQueryLen),
     served : {FALSE}]

\* the characters of a string literal
ToChars(s) == [i \in 1..Len(s) |-> SubSeq(s, i, i)]

stop_words ==
    {ToChars(w) : w \in
        {"the", "a", "an", "and", "or", "but", "in", "on", "at", "to", "for",
         "of", "with", "by", "is", "are", "was", "were", "be", "been", "being",
         "have", "has", "had", "do", "does", "did", "will", "would", "could",
         "should", "may", "might", "can", "this", "that", "these", "those"}}

common_terms ==
    {"function", "class", "method", "variable", "constant", "import",
     "export", "module", "package", "library", "framework", "api",
     "algorithm", "data structure", "sorting", "searching", "recursion",
     "iteration", "loop", "condition", "exception", "error", "debug",
     "test", "unit", "integration", "database", "query", "sql",
     "http", "rest", "graphql", "authentication", "authorization",
     "encryption", "security", "performance", "optimization", "cache",
     "memory", "cpu", "thread", "process", "async", "await", "promise",
     "callback", "event", "listener", "middleware", "router", "controller",
     "model", "view", "template", "component", "service", "repository"}

SUPPORTED_LANGUAGES ==
    {"python", "javascript", "typescript", "java", "cpp", "c", "go", "rust",
     "php", "ruby", "swift", "kotlin", "scala", "r", "matlab"}

LanguageTerms(language) ==
    CASE language = "python" ->
             {"def", "class", "import", "from", "as", "if", "else", "elif",
              "for", "while", "try", "except", "finally", "with", "lambda",
              "yield", "async", "await"}
      [] language = "javascript" ->
             {"function", "const", "let", "var", "if", "else", "for", "while",
              "try", "catch", "finally", "async", "await", "export",
              "import", "class", "extends", "super"}
      [] language = "typescript" ->
             {"interface", "type", "enum", "namespace", "module", "declare",
              "function", "const", "let", "var", "if", "else", "for", "while",
              "try", "catch", "finally", "async", "await", "export",
              "import", "class", "extends", "super"}
      [] language = "java" ->
             {"public", "private", "protected", "static", "final", "class",
              "interface", "extends", "implements", "import", "package",
              "try", "catch", "finally", "throw", "throws", "new", "this",
              "super"}
      [] language = "cpp" ->
             {"class", "struct", "enum", "namespace", "template", "typename",
              "const", "static", "virtual", "public", "private", "protected",
              "friend", "inline", "explicit", "operator", "new", "delete",
              "this", "super"}
      [] OTHER -> {}

_get_programming_keywords ==
    {ToChars(w) : w \in
        common_terms \cup UNION {LanguageTerms(l) : l \in SUPPORTED_LANGUAGES}}

\* re.findall(r'\b\w+\b', s): the maximal runs of word characters, in order
RECURSIVE findall_words(_)
findall_words(s) ==
    IF s = <<>> THEN <<>>
    ELSE IF ~WordChar(s[1]) THEN findall_words(Tail(s))
    ELSE LET ends == {i \in 1..Len(s) : ~WordChar(s[i])}
             n == IF ends = {} THEN Len(s)
                  ELSE (CHOOSE i \in ends : \A j \in ends : i <= j) - 1
         IN  <<SubSeq(s, 1, n)>> \o findall_words(SubSeq(s, n + 1, Len(s)))

\* _extract_keywords with only the last word of the query looked at
_extract_keywords_of_last_word(q) ==
    LET words == findall_words(Lower(q))
    IN  IF words = <<>> THEN {}
        ELSE {w \in {words[Len(words)]} : w \notin stop_words /\ Len(w) > 2}

\* _extract_keywords: list(set(keywords)), as a set
_extract_keywords(q) ==
    LET words == Range(findall_words(Lower(q)))
    IN  {w \in words : w \notin stop_words /\ Len(w) > 2}
        \cup {w \in words : w \in _get_programming_keywords}

\* the synonyms dict of _expand_query, in its order
synonyms ==
    <<[term |-> "sort", list |-> <<"sorting", "order", "arrange">>],
      [term |-> "search", list |-> <<"finding", "lookup", "query">>],
      [term |-> "function", list |-> <<"method", "procedure", "routine">>],
      [term |-> "class", list |-> <<"type", "object", "struct">>],
      [term |-> "error", list |-> <<"exception", "bug", "issue", "problem">>],
      [term |-> "api", list |-> <<"endpoint", "service", "interface">>],
      [term |-> "database", list |-> <<"db", "storage", "repository">>],
      [term |-> "authentication", list |-> <<"auth", "login", "security">>],
      [term |-> "performance",
       list |-> <<"speed", "efficiency", "optimization">>],
      [term |-> "test",
       list |-> <<"testing", "unit test", "integration test">>],
      [term |-> "algorithm", list |-> <<"algo", "procedure", "method">>],
      [term |-> "data structure", list |-> <<"ds", "container", "collection">>],
      [term |-> "recursion", list |-> <<"recursive", "recursively">>],
      [term |-> "iteration", list |-> <<"loop", "iterate", "for loop">>],
      [term |-> "async", list |-> <<"asynchronous", "non-blocking">>],
      [term |-> "cache", list |-> <<"caching", "memoization">>],
      [term |-> "middleware", list |-> <<"interceptor", "filter">>],
      [term |-> "template", list |-> <<"template", "view", "component">>]>>

\* the loop of _expand_query over synonyms.items(), from entry k on
RECURSIVE ExpandedFrom(_, _)
ExpandedFrom(query_lower, k) ==
    IF k > Len(synonyms) THEN <<>>
    ELSE (IF IsSubstr(ToChars(synonyms[k].term), query_lower)
          THEN synonyms[k].list ELSE <<>>)
         \o ExpandedFrom(query_lower, k + 1)

\* _expand_query: at most five terms
_expand_query(q) == SliceTo(ExpandedFrom(Lower(q), 1), 5)

\* every term _expand_query can return
SynonymTerms == UNION {Range(synonyms[k].list) : k \in 1..Len(synonyms)}

\* queries made of at most MaxQueryPieces words and separators
QueryPieces == {"sort", "Sort", "the", "if", "test", " ", "-"}
MaxQueryPieces == 3

RECURSIVE Concat(_)
Concat(pieces) ==
    IF pieces = <<>> THEN <<>> ELSE ToChars(pieces[1]) \o Concat(Tail(pieces))

PiecedQueries == {Concat(ps) : ps \in SeqsUpTo(QueryPieces, MaxQueryPieces)}

\* process_query with expand_query set: f"{query} {term}"
Expanded(q, term) == q \o <<" ">> \o ToChars(term)

KeywordRequests ==
    [op : {"keywords"}, query : PiecedQueries, term : SynonymTerms,
     served : {FALSE}]

QueryInit ==
    /\ req \in NormalizeRequests \cup KeywordRequests
    /\ out = <<>>
    /\ fs = <<>>
    /\ indexed_snippets = <<>>
    /\ parsed = <<>>
    /\ parsedPath = <<>>
    /\ runs = 0
    /\ RankIdle
    /\ WorkersIdle
    /\ StoreIdle

NormalizeQuery ==
    /\ req.op = "normalize" /\ ~req.served
    /\ out' = _normalize_query(req.query)
    /\ req' = [req EXCEPT !.served = TRUE]
    /\ UNCHANGED <<rankVars, indexVars, workerVars, storeVars>>

\* the keywords of a query, its expansion terms, and the keywords of the
\* query followed by the request's term
ExtractKeywords ==
    /\ req.op = "keywords" /\ ~req.served
    /\ out' = [keywords |-> _extract_keywords(req.query),
               expanded_terms |-> _expand_query(req.query),
               expanded_keywords |->
                   _extract_keywords(Expanded(req.query, req.term))]
    /\ req' = [req EXCEPT !.served = TRUE]
    /\ UNCHANGED <<rankVars, indexVars, workerVars, storeVars>>

QueryNext == NormalizeQuery \/ ExtractKeywords

SpecQuery == QueryInit /\ [][QueryNext]_vars

\* C16: query normalization is idempotent: normalizing the normalized form
\* of a query gives that normalized form again.
C16_NormalizeIsIdempotent ==
    (req.op = "normalize" /\ req.served) => _normalize_query(out) = out

\* a query with upper-case letters, a special character and repeated
\* whitespace was normalized to a different, non-empty string
C16_Witness_QueryChanged ==
    /\ req.op = "normalize" /\ req.served
    /\ "+" \in Range(req.query) /\ "S" \in Range(req.query)
    /\ out # req.query /\ out # <<>>

\* C17: for every query A and every synonym-expansion term t, the keyword
\* set extracted from A followed by a space and t is a superset of the
\* keyword set extracted from A.
C17_ExpansionKeepsKeywords ==
    (req.op = "keywords" /\ req.served) =>
        out.keywords \subseteq out.expanded_keywords

\* a query with keywords was followed by one of its own expansion terms,
\* which added a keyword
C17_Witness_KeywordAdded ==
    /\ req.op = "keywords" /\ req.served
    /\ req.term \in Range(out.expanded_terms)
    /\ out.keywords # {}
    /\ out.expanded_keywords # out.keywords

-----------------------------------------------------------------------------
(* CodeParser's complexity buckets and quality score on their own          *)

\* the types of the nodes ast.walk(node) yields
RECURSIVE WalkComplexityScore(_)
WalkComplexityScore(walk) ==
    IF walk = <<>> THEN 0
    ELSE (CASE walk[1] \in {"If", "For", "While", "Try", "ExceptHandler"} -> 1
            [] walk[1] = "FunctionDef" -> 2
            [] walk[1] = "ClassDef" -> 3
            [] OTHER -> 0)
         + WalkComplexityScore(Tail(walk))

\* _calculate_complexity on a node whose ast.walk yields these node types
_calculate_complexity_of_walk(walk) ==
    ComplexityBucket(WalkComplexityScore(walk))

\* a definition node followed by at most MaxChildren descendants
MaxChildren == 2
Walks ==
    {<<root>> \o rest :
        root \in {"FunctionDef", "ClassDef"},
        rest \in SeqsUpTo({"If", "FunctionDef", "ClassDef", "Expr"}, MaxChildren)}

\* contents of at most MaxBlockLines lines: plain, control and definition lines
MaxBlockLines == 3
BlockLines == {"x", "if x", "def f"}
BlockContents ==
    {JoinLines([i \in 1..Len(ls) |-> ToChars(ls[i])]) :
        ls \in SeqsUpTo(BlockLines, MaxBlockLines) \ {<<>>}}

ComplexityRequests ==
    [op : {"complexity"}, content : BlockContents, walk : Walks,
     served : {FALSE}]

\* a content of `lines` lines, the first `comment_lines` of them comments
CommentedContent(lines, comment_lines) ==
    JoinLines([i \in 1..lines |->
                  IF i <= comment_lines THEN <<"#", "c">> ELSE <<"x">>])

\* line counts on both sides of the breakpoints 5 and 50
MaxQualityLines == 52
LineCounts == {1, 2, 4, 5, 10, 20, 50, 51, MaxQualityLines}

QualityRequests ==
    UNION {{[op |-> "quality", lines |-> n, comment_lines |-> k,
             content |-> CommentedContent(n, k), complexity |-> c,
             served |-> FALSE] :
                k \in 0..n, c \in {"low", "medium", "high"}} :
           n \in LineCounts}

QualityInit ==
    /\ req \in ComplexityRequests \cup QualityRequests
    /\ out = <<>>
    /\ fs = <<>>
    /\ indexed_snippets = <<>>
    /\ parsed = <<>>
    /\ parsedPath = <<>>
    /\ runs = 0
    /\ RankIdle
    /\ WorkersIdle
    /\ StoreIdle

\* the complexity level of a block of lines and of a parsed definition
CalculateComplexity ==
    /\ req.op = "complexity" /\ ~req.served
    /\ out' = [simple |-> _calculate_simple_complexity(req.content),
               ast |-> _calculate_complexity_of_walk(req.walk)]
    /\ req' = [req EXCEPT !.served = TRUE]
    /\ UNCHANGED <<rankVars, indexVars, workerVars, storeVars>>

CalculateQualityScore ==
    /\ req.op = "quality" /\ ~req.served
    /\ out' = _calculate_quality_score_of_content(req.content, req.complexity)
    /\ req' = [req EXCEPT !.served = TRUE]
    /\ UNCHANGED <<rankVars, indexVars, workerVars, storeVars>>

QualityNext == CalculateComplexity \/ CalculateQualityScore

SpecQuality == QualityInit /\ [][QualityNext]_vars

\* the score the quality rules give, in halves, before clamping
QualityRule(lines, comment_lines, complexity) ==
    7 * QScale
    + (CASE 5 <= lines /\ lines <= 50 -> QScale
         [] lines > 50 -> 0 - QScale
         [] OTHER -> 0)
    + (CASE complexity = "low" -> 1
         [] complexity = "high" -> 0 - 1
         [] OTHER -> 0)
    + (CASE lines <= 10 * comment_lines /\ 10 * comment_lines <= 3 * lines -> 1
         [] 2 * comment_lines > lines -> 0 - 1
         [] OTHER -> 0)

\* C18: the extractor's quality score is within [1.0, 10.0] for every
\* content and complexity level, and equals 7.0, plus 1.0 for a line count
\* in [5,50] or minus 1.0 for one above 50, plus 0.5 for low or minus 0.5 for
\* high complexity, plus 0.5 for a comment-line ratio in [0.1,0.3] or minus
\* 0.5 for one above 0.5, clamped to that range.
C18_QualityScoreFollowsRule ==
    (req.op = "quality" /\ req.served) =>
        /\ QScale <= out /\ out <= 10 * QScale
        /\ out = Max(QScale, Min(10 * QScale,
                     QualityRule(req.lines, req.comment_lines,
                                 req.complexity)))

\* a ten-line snippet of low complexity with two comment lines scored 9.0
C18_Witness_AllBonuses ==
    /\ req.op = "quality" /\ req.served
    /\ req.lines = 10 /\ req.comment_lines = 2 /\ req.complexity = "low"
    /\ out = 9 * QScale

BucketRank(bucket) ==
    CASE bucket = "low" -> 1 [] bucket = "medium" -> 2 [] bucket = "high" -> 3

\* the bucket is the one the breakpoints 2 and 5 give the score
AtBreakpoints(score, bucket) ==
    /\ bucket = "low" <=> score <= 2
    /\ bucket = "medium" <=> score \in 3..5
    /\ bucket = "high" <=> score > 5

\* C19: both complexity functions bucket their score with the same fixed
\* breakpoints (at most 2 is low, 3 to 5 medium, above 5 high), so a higher
\* complexity score never gets a lower bucket.
C19_BucketsAreMonotone ==
    (req.op = "complexity" /\ req.served) =>
        LET simple == SimpleComplexityScore(req.content)
            walked == WalkComplexityScore(req.walk)
        IN  /\ AtBreakpoints(simple, out.simple)
            /\ AtBreakpoints(walked, out.ast)
            /\ simple <= walked =>
                   BucketRank(out.simple) <= BucketRank(out.ast)
            /\ walked <= simple =>
                   BucketRank(out.ast) <= BucketRank(out.simple)

\* scores on both sides of a breakpoint got neighbouring buckets
C19_Witness_AcrossBreakpoint ==
    /\ req.op = "complexity" /\ req.served
    /\ SimpleComplexityScore(req.content) = 5 /\ out.simple = "medium"
    /\ WalkComplexityScore(req.walk) = 6 /\ out.ast = "high"

-----------------------------------------------------------------------------
(* Properties of RankingEngine._calculate_recency_score                    *)

\* the age in whole days of a timestamp
AgeInDays(created_at) == NowDay - created_at.day

\* the recency steps, in units of 1/SubScale
RecencyStep(age) ==
    CASE age <= 30 -> SubScale
      [] age > 30 /\ age <= 90 -> (8 * SubScale) \div 10
      [] age > 90 /\ age <= 365 -> (6 * SubScale) \div 10
      [] age > 365 /\ age <= 730 -> (4 * SubScale) \div 10
      [] OTHER -> (2 * SubScale) \div 10

\* C20: the recency sub-score of every candidate being ranked is the step
\* function of its snippet's age in whole days (at most 30 gives 1.0, at most
\* 90 gives 0.8, at most 365 gives 0.6, at most 730 gives 0.4, older gives
\* 0.2), a missing timestamp gives 0.5, and of two candidates with a
\* timestamp the older one never has the higher score.
C20_RecencyIsStepFunctionOfAge ==
    /\ \A i \in 1..Len(results) :
           LET created_at == results[i].snippet.created_at
           IN  _calculate_recency_score(results[i]) =
                   IF created_at.has THEN RecencyStep(AgeInDays(created_at))
                   ELSE SubScale \div 2
    /\ \A i, j \in 1..Len(results) :
           LET a == results[i].snippet.created_at
               b == results[j].snippet.created_at
           IN  (a.has /\ b.has /\ AgeInDays(a) <= AgeInDays(b)) =>
                   _calculate_recency_score(results[i])
                       >= _calculate_recency_score(results[j])

-----------------------------------------------------------------------------
(* Properties of RankingEngine._calculate_popularity_score                 *)

\* 0.5 x min(log10(stars+1)/5, 1) + 0.3 x min(usage_count/100, 1)
\* + 0.2 x min(view_count/50, 1), for the stars of the result's repository
PopularityBlend(r) ==
    (5 * Min((r.repository.stars_log10 * SubScale) \div 5, SubScale)
     + 3 * Min((r.snippet.usage_count * SubScale) \div 100, SubScale)
     + 2 * Min((r.view_count * SubScale) \div 50, SubScale)) \div 10

\* C21: the popularity sub-score of every candidate is the weighted blend
\* 0.5 / 0.3 / 0.2 of the capped star, usage and view terms, where stars is
\* the star count of the candidate's repository; a candidate with no stars,
\* no usage and no views scores exactly 0.0.
C21_PopularityIsWeightedBlend ==
    \A i \in 1..Len(results) :
        _calculate_popularity_score(results[i]) = PopularityBlend(results[i])


-----------------------------------------------------------------------------
(* Properties of the boost product of RankingEngine._calculate_relevance_score *)

\* the caps that apply_boosts puts on the four boosts: 2.0, 1.5, 1.3, 1.2
CappedBoosted(r, base) ==
    base * Min(r.quality_boost, 2 * BScale)
         * Min(r.popularity_boost, (15 * BScale) \div 10)
         * Min(r.recency_boost, (13 * BScale) \div 10)
         * Min(r.documentation_boost, (12 * BScale) \div 10)

\* C22: every result scored by rank_results has final score
\* min(1.0, base x qb x pb x rb x db), base the weighted sum of the six
\* sub-scores and each boost limited to its own cap (2.0, 1.5, 1.3, 1.2),
\* whether or not apply_boosts ran before.
C22_FinalScoreUsesCappedBoosts ==
    (lastOp = "rank" /\ WeightsComplete(weights)) =>
        \A i \in 1..Len(results) :
            results[i].relevance_score =
                Min(CappedBoosted(results[i], WeightedSum(results[i], query, weights)),
                    FinalScale)


-----------------------------------------------------------------------------
(* Properties of RankingEngine.filter_results                              *)

\* the conditions a returned candidate has to satisfy; a candidate without a
\* creation timestamp is not tested against the date range
SatisfiesFilters(r, q) ==
    /\ r.similarity_score >= q.similarity_threshold
    /\ q.languages # <<>> => InList(r.snippet.language, q.languages)
    /\ q.repositories # <<>> => InList(r.snippet.repository_id, q.repositories)
    /\ q.complexity_levels # <<>> =>
           InList(r.snippet.complexity_level, q.complexity_levels)
    /\ (q.date_range.has /\ r.snippet.created_at.has) =>
           /\ q.date_range.start.has =>
                  r.snippet.created_at.day >= q.date_range.start.day
           /\ q.date_range.end.has =>
                  r.snippet.created_at.day <= q.date_range.end.day

\* C23: filter_results returns, in input order, exactly the candidates that
\* satisfy the similarity threshold, the language, repository and complexity
\* filters and the date range, on every return path.
C23_FilterReturnsExactlySatisfying ==
    lastOp = "filter" =>
        results = SelectSeq(prev, LAMBDA r : SatisfiesFilters(r, query))


-----------------------------------------------------------------------------
(* QueryProcessor.process_query and its intent and topic stages            *)

\* the outcome of a call: a raised exception or a returned value
Raised(e) == [raised |-> TRUE, error |-> e]
Returned(v) == [raised |-> FALSE, value |-> v]

\* SearchIntent values; NoIntent stands for None
NoIntent == ""

\* the `if any(term in query_lower ...)` chain of
\* _rule_based_intent_detection, in its order
intent_rules ==
    <<[intent |-> "find_function",
       terms |-> {"function", "def ", "func ", "method"}],
      [intent |-> "find_class", terms |-> {"class", "struct", "interface"}],
      [intent |-> "find_algorithm",
       terms |-> {"algorithm", "sort", "search", "binary", "quick", "merge"}],
      [intent |-> "find_example",
       terms |-> {"example", "sample", "how to", "tutorial"}],
      [intent |-> "find_api", terms |-> {"api", "endpoint", "rest", "graphql"}],
      [intent |-> "debug_error",
       terms |-> {"error", "exception", "bug", "fix", "debug"}],
      [intent |-> "learn_concept",
       terms |-> {"learn", "understand", "explain", "what is"}],
      [intent |-> "compare_implementations",
       terms |-> {"compare", "difference", "vs", "versus"}]>>

\* any(term in query_lower for term in terms)
AnyTermIn(terms, query_lower) ==
    \E term \in terms : IsSubstr(ToChars(term), query_lower)

\* the chain from rule k on
RECURSIVE IntentFrom(_, _)
IntentFrom(query_lower, k) ==
    IF k > Len(intent_rules) THEN NoIntent
    ELSE IF AnyTermIn(intent_rules[k].terms, query_lower)
         THEN intent_rules[k].intent
         ELSE IntentFrom(query_lower, k + 1)

\* the chain with the last matching rule winning
RECURSIVE LastIntentFrom(_, _)
LastIntentFrom(query_lower, k) ==
    IF k < 1 THEN NoIntent
    ELSE IF AnyTermIn(intent_rules[k].terms, query_lower)
         THEN intent_rules[k].intent
         ELSE LastIntentFrom(query_lower, k - 1)

_rule_based_intent_detection_last_match(q) ==
    LastIntentFrom(Lower(q), Len(intent_rules))

_rule_based_intent_detection(q) == IntentFrom(Lower(q), 1)

\* the keys of intent_labels in _detect_intent
intent_labels ==
    {"find_function", "find_class", "find_algorithm", "find_example",
     "find_pattern", "find_api", "debug_error", "learn_concept",
     "compare_implementations"}

\* the intent classifier: not loaded (None), raising when called, or
\* answering with a first label that maps to `intent` (NoIntent: to no key)
Classifiers ==
    {[state |-> "absent", intent |-> NoIntent],
     [state |-> "raises", intent |-> NoIntent]}
    \cup [state : {"answers"}, intent : intent_labels \cup {NoIntent}]

_detect_intent(q, classifier) ==
    CASE classifier.state = "absent" -> _rule_based_intent_detection(q)
      [] classifier.state = "raises" -> _rule_based_intent_detection(q)
      [] OTHER -> classifier.intent

\* a topic tag f"{kind}:{value}"
Tag(kind, value) == <<kind, value>>

\* the names bound at module level in query_processor.py: its imports and
\* its class
ModuleNames ==
    {"re", "List", "Dict", "Any", "Optional", "logging", "pipeline",
     "SearchQuery", "SearchType", "SearchIntent", "settings",
     "QueryProcessor"}

frameworks ==
    {<<"react", "frontend">>, <<"vue", "frontend">>,
     <<"angular", "frontend">>, <<"django", "backend">>,
     <<"flask", "backend">>, <<"express", "backend">>,
     <<"spring", "backend">>, <<"tensorflow", "machine_learning">>,
     <<"pytorch", "machine_learning">>, <<"scikit", "machine_learning">>,
     <<"pandas", "data_analysis">>, <<"numpy", "data_analysis">>,
     <<"matplotlib", "data_visualization">>}

domains ==
    {<<"web", {"web", "http", "html", "css", "javascript"}>>,
     <<"mobile", {"mobile", "ios", "android", "react native"}>>,
     <<"data", {"data", "database", "sql", "nosql", "analytics"}>>,
     <<"ai", {"ai", "machine learning", "ml", "neural", "deep learning"}>>,
     <<"security",
       {"security", "cryptography", "encryption", "authentication"}>>,
     <<"devops", {"devops", "docker", "kubernetes", "ci/cd", "deployment"}>>}

\* the tags of the three detection loops, as a set
TopicTags(q) ==
    {Tag("language", lang) : lang \in
        {l \in SUPPORTED_LANGUAGES : IsSubstr(ToChars(l), Lower(q))}}
    \cup UNION {{Tag("framework", f[1]), Tag("category", f[2])} : f \in
        {g \in frameworks : IsSubstr(ToChars(g[1]), Lower(q))}}
    \cup {Tag("domain", d[1]) : d \in
        {e \in domains : AnyTermIn(e[2], Lower(q))}}

\* _extract_topics: its first statement reads the global name
\* SUPPORTED_LANGUAGES, which raises NameError unless the module binds it
_extract_topics(q) ==
    IF "SUPPORTED_LANGUAGES" \notin ModuleNames THEN Raised("NameError")
    ELSE Returned(TopicTags(q))

\* ' '.join(terms)
RECURSIVE JoinWithSpace(_)
JoinWithSpace(terms) ==
    IF terms = <<>> THEN <<>>
    ELSE IF Len(terms) = 1 THEN ToChars(terms[1])
    ELSE ToChars(terms[1]) \o <<" ">> \o JoinWithSpace(Tail(terms))

\* process_query: the query object is updated field by field inside one
\* try block; `except Exception` returns the object as it is by then
process_query(sq, classifier) ==
    LET with_keywords ==
            [sq EXCEPT !.query_keywords = _extract_keywords(sq.query)]
        with_intent ==
            [with_keywords EXCEPT !.intent = _detect_intent(sq.query, classifier)]
        expanded ==
            IF sq.expand_query
            THEN [with_intent EXCEPT !.query =
                     sq.query \o <<" ">> \o JoinWithSpace(_expand_query(sq.query))]
            ELSE with_intent
        topics == _extract_topics(expanded.query)
    IN  IF topics.raised THEN expanded
        ELSE [expanded EXCEPT !.query_topics = topics.value,
                              !.query = _normalize_query(expanded.query)]

\* raw queries: words of both cases, a framework, a language, punctuation
ProcessPieces == {"Sort", "class", "react", "python", "rest", " ", "!", "."}
MaxProcessPieces == 2

ProcessQueries ==
    {Concat(ps) : ps \in SeqsUpTo(ProcessPieces, MaxProcessPieces)}

QueryObjects ==
    [query : ProcessQueries, expand_query : BOOLEAN, query_keywords : {{}},
     intent : {NoIntent}, query_topics : {{}}]

ProcessRequests ==
    [op : {"process"}, query : QueryObjects, classifier : Classifiers,
     served : {FALSE}]

IntentRequests ==
    [op : {"intent"}, query : ProcessQueries, classifier : Classifiers,
     served : {FALSE}]

ProcessInit ==
    /\ req \in ProcessRequests \cup IntentRequests
    /\ out = <<>>
    /\ fs = <<>>
    /\ indexed_snippets = <<>>
    /\ parsed = <<>>
    /\ parsedPath = <<>>
    /\ runs = 0
    /\ RankIdle
    /\ WorkersIdle
    /\ StoreIdle

ProcessQuery ==
    /\ req.op = "process" /\ ~req.served
    /\ out' = process_query(req.query, req.classifier)
    /\ req' = [req EXCEPT !.served = TRUE]
    /\ UNCHANGED <<rankVars, indexVars, workerVars, storeVars>>

DetectIntent ==
    /\ req.op = "intent" /\ ~req.served
    /\ out' = _detect_intent(req.query, req.classifier)
    /\ req' = [req EXCEPT !.served = TRUE]
    /\ UNCHANGED <<rankVars, indexVars, workerVars, storeVars>>

ProcessNext == ProcessQuery \/ DetectIntent

SpecProcess == ProcessInit /\ [][ProcessNext]_vars

\* normalized form: lower case, no leading, trailing or repeated whitespace,
\* only identifier characters, single spaces and '-', '_', '.'
IsNormalizedText(s) ==
    /\ \A i \in 1..Len(s) :
           /\ s[i] = LowerChar(s[i])
           /\ WordChar(s[i]) \/ s[i] \in {" ", "-", "_", "."}
           /\ (s[i] = " ") => (i > 1 /\ i < Len(s) /\ s[i + 1] # " ")

\* C24: process_query runs keyword, intent and topic extraction on the text
\* that is not yet normalized and normalizes last, so the query text of the
\* returned object is in normalized form for every raw query, on every
\* return path.
C24_ReturnedQueryIsNormalized ==
    (req.op = "process" /\ req.served) =>
        /\ out.query_keywords = _extract_keywords(req.query.query)
        /\ IsNormalizedText(out.query)


\* C25: the topic tags of a processed query contain language:<name> for
\* each supported language name occurring in the query text, framework:<f>
\* and category:<c> for each framework key occurring in it, and domain:<d>
\* for each domain with a keyword occurring in it.
C25_TopicsCoverQueryText ==
    (req.op = "process" /\ req.served) =>
        TopicTags(req.query.query) \subseteq out.query_topics


\* the order in which the fallback checks the intent groups
IntentCheckOrder ==
    <<"find_function", "find_class", "find_algorithm", "find_example",
      "find_api", "debug_error", "learn_concept", "compare_implementations">>

\* the positions, in that order, of the groups with a term in the query
MatchingGroups(q) ==
    {k \in 1..Len(IntentCheckOrder) :
        \E j \in 1..Len(intent_rules) :
            /\ intent_rules[j].intent = IntentCheckOrder[k]
            /\ AnyTermIn(intent_rules[j].terms, Lower(q))}

FallbackUsed == req.classifier.state \in {"absent", "raises"}

\* C26: when no classifier is available or the classifier call fails, the
\* detected intent is that of the earliest group, in the order function,
\* class, algorithm, example, api, error, learn, compare, that has a term
\* occurring in the query; a query matching no group gets no intent.
C26_FallbackFirstMatchWins ==
    (req.op = "intent" /\ req.served /\ FallbackUsed) =>
        LET matching == MatchingGroups(req.query)
        IN  IF matching = {} THEN out = NoIntent
            ELSE out = IntentCheckOrder[CHOOSE k \in matching :
                                            \A j \in matching : k <= j]

\* the classifier call failed for a query matching two groups, and the
\* group that wins is not the one whose term comes first in the text
C26_Witness_EarlierGroupWins ==
    /\ req.op = "intent" /\ req.served
    /\ req.classifier.state = "raises"
    /\ req.query = ToChars("Sortclass")
    /\ Cardinality(MatchingGroups(req.query)) = 2
    /\ out = "find_class"


-----------------------------------------------------------------------------
(* RankingEngine.apply_boosts                                              *)

\* boost 1.0 in the unit of this section: eight decimal places hold the
\* product of two passes of four factors given in tenths
BoostScale == 10000 * 10000

\* boost * (k / 10)
TimesTenths(boost, k) == (boost \div 10) * k

\* _get_intent_boost, in tenths: the entry of intent_boosts for intent.value,
\* 1.0 for a value without entry
_get_intent_boost(r, intent) ==
    CASE intent = "find_function" ->
             IF r.snippet.code_type \in {"function", "method"} THEN 12 ELSE 8
      [] intent = "find_class" ->
             IF r.snippet.code_type = "class" THEN 12 ELSE 8
      [] intent = "find_algorithm" ->
             IF ToChars("algorithm") \in r.snippet.keywords THEN 13 ELSE 10
      [] intent = "find_example" ->
             IF r.snippet.docstring # <<>> THEN 11 ELSE 10
      [] intent = "find_pattern" ->
             IF Cardinality(r.snippet.keywords) > 3 THEN 12 ELSE 10
      [] intent = "find_api" ->
             IF ToChars("api") \in r.snippet.keywords THEN 12 ELSE 10
      [] intent = "debug_error" ->
             IF ToChars("error") \in r.snippet.keywords
                \/ ToChars("exception") \in r.snippet.keywords
             THEN 11 ELSE 10
      [] intent = "learn_concept" ->
             IF r.snippet.docstring # <<>> THEN 12 ELSE 10
      [] intent = "compare_implementations" ->
             IF r.snippet.complexity_score > 5 THEN 11 ELSE 10
      [] OTHER -> 10

\* the quality boost after the four `*=` statements of the loop body
BoostedQuality(r, q) ==
    LET language == IF q.languages # <<>> /\ InList(r.snippet.language, q.languages)
                    THEN TimesTenths(r.quality_boost, 12) ELSE r.quality_boost
        repository == IF q.repositories # <<>>
                         /\ InList(r.snippet.repository_id, q.repositories)
                      THEN TimesTenths(language, 11) ELSE language
        intent == IF q.intent # NoIntent
                  THEN TimesTenths(repository, _get_intent_boost(r, q.intent))
                  ELSE repository
    IN  IF q.complexity_levels # <<>>
           /\ InList(r.snippet.complexity_level, q.complexity_levels)
        THEN TimesTenths(intent, 11) ELSE intent

\* the loop body with its first statement multiplying every boost
BoostOneResultAllBoosts(r, q) ==
    LET k == IF q.languages # <<>> /\ InList(r.snippet.language, q.languages)
             THEN 12 ELSE 10
    IN  [r EXCEPT
            !.quality_boost = Min(BoostedQuality(r, q), 2 * BoostScale),
            !.popularity_boost =
                Min(TimesTenths(r.popularity_boost, k), (15 * BoostScale) \div 10),
            !.recency_boost =
                Min(TimesTenths(r.recency_boost, k), (13 * BoostScale) \div 10),
            !.documentation_boost =
                Min(TimesTenths(r.documentation_boost, k), (12 * BoostScale) \div 10)]

\* the loop body: the four boosts of one result, multiplied and capped
BoostOneResult(r, q) ==
    [r EXCEPT
        !.quality_boost = Min(BoostedQuality(r, q), 2 * BoostScale),
        !.popularity_boost = Min(r.popularity_boost, (15 * BoostScale) \div 10),
        !.recency_boost = Min(r.recency_boost, (13 * BoostScale) \div 10),
        !.documentation_boost =
            Min(r.documentation_boost, (12 * BoostScale) \div 10)]

\* apply_boosts: the results are updated in place and returned in their order
apply_boosts(rs, q) == [i \in 1..Len(rs) |-> BoostOneResult(rs[i], q)]

Unboosted(r) ==
    [r EXCEPT !.quality_boost = BoostScale, !.popularity_boost = BoostScale,
              !.recency_boost = BoostScale, !.documentation_boost = BoostScale]

\* results as the search builds them (boosts 1.0), and one loaded with a
\* stored popularity boost of 2.0
BoostCandidateRows ==
    << Unboosted(BaseResult),
       Unboosted([WithSnippet([BaseSnippet EXCEPT
                      !.language = "javascript", !.repository_id = "r2",
                      !.complexity_level = "high", !.code_type = "class",
                      !.docstring = <<"d">>])
                  EXCEPT !.similarity_score = SubScale]),
       Unboosted(WithSnippet([BaseSnippet EXCEPT
                      !.code_type = "method", !.complexity_score = 6,
                      !.keywords = {ToChars("algorithm"), ToChars("api"),
                                    ToChars("error"), s_sort}])),
       [Unboosted(BaseResult) EXCEPT !.popularity_boost = 2 * BoostScale] >>

BoostCandidates ==
    {[BoostCandidateRows[i] EXCEPT !.id = i] : i \in 1..Len(BoostCandidateRows)}

\* processed queries: filter lists and the detected intent
BoostQueries ==
    {[intent |-> i] @@ [BaseQuery EXCEPT !.languages = ls, !.repositories = rp,
                                         !.complexity_levels = cl] :
        i \in intent_labels \cup {NoIntent},
        ls \in {<<>>, <<"python">>},
        rp \in {<<>>, <<"r1">>},
        cl \in {<<>>, <<"low", "medium">>}}

BoostInit ==
    /\ results \in SeqsUpTo(BoostCandidates, MaxResults)
    /\ query \in BoostQueries
    /\ weights = SEARCH_WEIGHTS
    /\ prev = <<>>
    /\ lastOp = "none"
    /\ fs = <<>>
    /\ indexed_snippets = <<>>
    /\ parsed = <<>>
    /\ parsedPath = <<>>
    /\ runs = 0
    /\ SearchIdle
    /\ WorkersIdle
    /\ StoreIdle

\* the boost pass before ranking
ApplyBoosts ==
    /\ lastOp = "none"
    /\ prev' = results
    /\ results' = apply_boosts(results, query)
    /\ lastOp' = "boost"
    /\ UNCHANGED <<query, weights, indexVars, searchVars, workerVars,
                   storeVars>>

\* a further pass over the same results with the same query
ApplyBoostsAgain ==
    /\ lastOp = "boost"
    /\ prev' = results
    /\ results' = apply_boosts(results, query)
    /\ lastOp' = "boost_again"
    /\ UNCHANGED <<query, weights, indexVars, searchVars, workerVars,
                   storeVars>>

BoostNext == ApplyBoosts \/ ApplyBoostsAgain

SpecBoost == BoostInit /\ [][BoostNext]_vars

\* the snippet is what the intent looks for
MatchesIntent(r, intent) ==
    CASE intent = "find_function" -> r.snippet.code_type \in {"function", "method"}
      [] intent = "find_class" -> r.snippet.code_type = "class"
      [] intent = "find_algorithm" -> ToChars("algorithm") \in r.snippet.keywords
      [] intent = "find_example" -> r.snippet.docstring # <<>>
      [] intent = "find_pattern" -> Cardinality(r.snippet.keywords) > 3
      [] intent = "find_api" -> ToChars("api") \in r.snippet.keywords
      [] intent = "debug_error" ->
             {ToChars("error"), ToChars("exception")} \cap r.snippet.keywords # {}
      [] intent = "learn_concept" -> r.snippet.docstring # <<>>
      [] intent = "compare_implementations" -> r.snippet.complexity_score > 5
      [] OTHER -> FALSE

\* the product of the filter factors 1.2, 1.1, 1.1 that apply, in 1/1000
FilterFactors(r, q) ==
      (IF InList(r.snippet.language, q.languages) THEN 12 ELSE 10)
    * (IF InList(r.snippet.repository_id, q.repositories) THEN 11 ELSE 10)
    * (IF InList(r.snippet.complexity_level, q.complexity_levels)
       THEN 11 ELSE 10)

AllBoostsOne(r) ==
    /\ r.quality_boost = BoostScale /\ r.popularity_boost = BoostScale
    /\ r.recency_boost = BoostScale /\ r.documentation_boost = BoostScale

\* C27: one boost pass over a result whose four boosts are 1.0 sets
\* quality_boost to min(2.0, product of the applicable factors 1.2
\* (language in the filter), 1.1 (repository in the filter), 1.1 (complexity
\* level in the filter) and an intent multiplier that is above 1 when the
\* snippet matches the detected intent and at most 1 otherwise), and leaves
\* the other boosts, the similarity score and the membership and order of
\* the list unchanged.
C27_OnePassSetsQualityBoostOnly ==
    lastOp = "boost" =>
        /\ Len(results) = Len(prev)
        /\ \A i \in 1..Len(prev) : AllBoostsOne(prev[i]) =>
               /\ prev[i] = [results[i] EXCEPT !.quality_boost = BoostScale]
               /\ \E m \in 0..20 :
                      /\ results[i].quality_boost =
                             Min(2 * BoostScale,
                                 (BoostScale \div 10000) * FilterFactors(prev[i], query) * m)
                      /\ query.intent = NoIntent => m = 10
                      /\ (query.intent # NoIntent
                          /\ MatchesIntent(prev[i], query.intent)) => m > 10
                      /\ ~MatchesIntent(prev[i], query.intent) => m <= 10

\* a result with boosts 1.0 got the language, repository, complexity and
\* intent factors in one pass: 1.2 x 1.1 x 1.1 x 1.3
C27_Witness_AllFactorsApplied ==
    /\ lastOp = "boost"
    /\ \E i \in 1..Len(prev) :
           /\ AllBoostsOne(prev[i])
           /\ query.intent = "find_algorithm"
           /\ results[i].quality_boost = (BoostScale \div 10000) * 12 * 11 * 11 * 13


\* C30: the boost pass is idempotent: a second application of apply_boosts
\* to the same results with the same query leaves every boost factor of
\* every result as the first application left it.
C30_BoostPassIsIdempotent ==
    lastOp = "boost_again" => results = prev


-----------------------------------------------------------------------------
(* Properties of CodeParser._parse_generic_file                            *)

\* the maximal runs a..b of consecutive non-blank, non-comment lines
CodeRuns(lines) ==
    {run \in (1..Len(lines)) \X (1..Len(lines)) :
        /\ run[1] <= run[2]
        /\ \A k \in run[1]..run[2] : IsGenericCodeLine(lines[k])
        /\ run[1] = 1 \/ ~IsGenericCodeLine(lines[run[1] - 1])
        /\ run[2] = Len(lines) \/ ~IsGenericCodeLine(lines[run[2] + 1])}

RunText(lines, run) == JoinLines(SubSeq(lines, run[1], run[2]))

\* the texts of the runs with at least MinBlockSize stripped characters, in
\* file order
KeptRunTexts(lines) ==
    LET kept == {run \in CodeRuns(lines) :
                    Len(Strip(RunText(lines, run))) >= MinBlockSize}
        starts == SelectSeq([a \in 1..Len(lines) |-> a],
                            LAMBDA a : \E run \in kept : run[1] = a)
    IN  [i \in 1..Len(starts) |->
            RunText(lines, CHOOSE run \in kept : run[1] = starts[i])]

\* C28: for a file handled by the generic line-grouping strategy the
\* extractor emits exactly one snippet for each maximal run of consecutive
\* non-blank, non-comment lines whose stripped text has at least 20
\* characters, and none for a shorter run.
C28_GenericEmitsOneSnippetPerRun ==
    parsedPath = p_go =>
        [i \in 1..Len(parsed) |-> parsed[i].content]
            = KeptRunTexts(SplitLines(fs[p_go]))


-----------------------------------------------------------------------------
(* Properties of the language filter of GET /search                        *)

LanguageFiltered ==
    /\ req.op = "search_code" /\ req.served
    /\ req.query # <<>>
    /\ req.languages # <<>>

\* the hits of the whole corpus at the request's threshold, best first,
\* that are written in a requested language
HitsInLanguages ==
    SelectSeq(search(indexed_snippets, req.query, Len(indexed_snippets),
                     req.similarity_threshold),
              LAMBDA h : LowerName(h.snippet.language)
                             \in {LowerName(req.languages[i]) :
                                     i \in 1..Len(req.languages)})

\* C29: with a language filter the response holds the min(max_results, N)
\* best-scoring snippets of the requested languages, N being the number of
\* corpus snippets of those languages scoring at least the threshold.
C29_LanguageFilterKeepsBestOfLanguage ==
    LanguageFiltered =>
        out.total_results = Min(req.max_results, Len(HitsInLanguages))

====
